---------------------------- MODULE Spec2Model ----------------------------
(***************************************************************************)
(* Site-to-store synthesis pipeline of SnapShelf.                          *)
(*                                                                         *)
(*   AIScraperService      (acquisition, product extraction)               *)
(*   DesignAnalyzerService (colour / typography / layout analysis, AI      *)
(*                          recommendations with fallback)                 *)
(*   StoreBuilderService   (template catalog, template synthesis,          *)
(*                          createStore, updateStoreDesign)                *)
(*   StoreController       (publishStore, updateStore, createStore,        *)
(*                          deleteStore) and AIController.generateStore    *)
(*                                                                         *)
(* JavaScript strings that the code inspects character by character        *)
(* (colour strings, font declarations, AI response bodies) are sequences   *)
(* of one-character strings.  Strings that are only passed around are      *)
(* TLA+ strings.                                                           *)
(***************************************************************************)
EXTENDS Integers, Sequences, FiniteSets, TLC

VARIABLES
    \* ---- AIScraperService -------------------------------------------
    browser,        \* this.browser: 0 = null, n > 0 = handle of the n-th launch
    launched,       \* number of puppeteer.launch() calls that resolved
    openPages,      \* pages opened by newPage() and not closed: call -> browser
    pc,             \* position of each scrapeWebsite invocation
    elapsed,        \* milliseconds spent in the pending navigation of a call
    usedHandles,    \* browser handles that newPage() was called on
    failedAt,       \* the await whose rejection made the call throw, and the error
    events,         \* the browser and page requests each call has issued, in order
    closed,         \* browser handles that close() has closed
    \* ---- AIScraperService.extractProducts ---------------------------
    dom,            \* the loaded document: sequence of elements
    products,       \* result of extractProducts: sequence of DOM positions
    extracted,      \* extractProducts has run on dom
    \* ---- DesignAnalyzerService --------------------------------------
    scrapedData,    \* the ScrapedSite handed to analyzeDesign
    aiOutcome,      \* what the completion service does for this request
    analysis,       \* outcome of analyzeDesign
    completion,     \* the chat.completions.create request of getAIRecommendations
    \* ---- StoreBuilderService / StoreController ----------------------
    stores,         \* the Store collection: id -> record
    lastOp,         \* the operation that produced the current state
    reply,          \* outcome of the last operation
    \* ---- a method of a service applied to one argument ---------------
    call,           \* the method and its argument
    result,         \* what the method returned ([pending |-> TRUE] before)
    \* ---- AIController.analyzeWebsite ---------------------------------
    request         \* one POST /analyze request: position, steps run, response

scrapeVars  == <<browser, launched, openPages, pc, elapsed, usedHandles, failedAt,
                 events, closed>>
extractVars == <<dom, products, extracted>>
analyzeVars == <<scrapedData, aiOutcome, analysis, completion>>
storeVars   == <<stores, lastOp, reply>>
applyVars   == <<call, result>>
requestVars == <<request>>
vars == <<browser, launched, openPages, pc, elapsed, usedHandles, failedAt,
          dom, products, extracted,
          scrapedData, aiOutcome, analysis, completion,
          stores, lastOp, reply,
          call, result, request>>

-----------------------------------------------------------------------------
(***************************************************************************)
(* Bounds of the model.                                                    *)
(***************************************************************************)
MaxColors == 2          \* longest colour list drawn for analyzeDesign
MaxFonts == 1           \* longest font list drawn for analyzeDesign
MaxCandidates == 1      \* longest product list drawn for analyzeDesign

-----------------------------------------------------------------------------
(***************************************************************************)
(* String helpers (JavaScript String.prototype semantics).                 *)
(***************************************************************************)
CharAt(s, i) == IF i >= 1 /\ i <= Len(s) THEN s[i] ELSE ""

Slice(s, from, to) == IF from > to THEN <<>> ELSE SubSeq(s, from, to)

IsDigit(c) == c \in {"0", "1", "2", "3", "4", "5", "6", "7", "8", "9"}

\* \s of a JavaScript regular expression, for the characters that occur here
IsSpace(c) == c \in {" ", "\t", "\n"}

DigitVal(c) ==
    CASE c = "0" -> 0 [] c = "1" -> 1 [] c = "2" -> 2 [] c = "3" -> 3
      [] c = "4" -> 4 [] c = "5" -> 5 [] c = "6" -> 6 [] c = "7" -> 7
      [] c = "8" -> 8 [] c = "9" -> 9

IsHexDigit(c) == IsDigit(c) \/ c \in {"a", "b", "c", "d", "e", "f",
                                       "A", "B", "C", "D", "E", "F"}

HexVal(c) ==
    CASE IsDigit(c) -> DigitVal(c)
      [] c \in {"a", "A"} -> 10 [] c \in {"b", "B"} -> 11
      [] c \in {"c", "C"} -> 12 [] c \in {"d", "D"} -> 13
      [] c \in {"e", "E"} -> 14 [] c \in {"f", "F"} -> 15

HexDigits == <<"0", "1", "2", "3", "4", "5", "6", "7",
               "8", "9", "a", "b", "c", "d", "e", "f">>

\* parseInt(x) for a string of decimal digits
RECURSIVE parseInt(_)
parseInt(x) ==
    IF Len(x) = 0 THEN 0
    ELSE 10 * parseInt(SubSeq(x, 1, Len(x) - 1)) + DigitVal(x[Len(x)])

\* parseInt(x, 16) for a string of hex digits
RECURSIVE parseHex(_)
parseHex(x) ==
    IF Len(x) = 0 THEN 0
    ELSE 16 * parseHex(SubSeq(x, 1, Len(x) - 1)) + HexVal(x[Len(x)])

\* Number.prototype.toString(16) for a non-negative integer
RECURSIVE toString16(_)
toString16(n) ==
    IF n < 16 THEN <<HexDigits[n + 1]>>
    ELSE toString16(n \div 16) \o <<HexDigits[(n % 16) + 1]>>

\* first position >= i of s that does not hold a digit
RECURSIVE DigitRunEnd(_, _)
DigitRunEnd(s, i) ==
    IF IsDigit(CharAt(s, i)) THEN DigitRunEnd(s, i + 1) ELSE i

\* first position >= i of s that does not hold white space
RECURSIVE SpaceRunEnd(_, _)
SpaceRunEnd(s, i) ==
    IF IsSpace(CharAt(s, i)) THEN SpaceRunEnd(s, i + 1) ELSE i

\* String.prototype.includes
Includes(s, kw) ==
    \E i \in 1..(Len(s) - Len(kw) + 1) : SubSeq(s, i, i + Len(kw) - 1) = kw

\* String.prototype.trim
RECURSIVE TrimLeft(_)
TrimLeft(s) ==
    IF Len(s) > 0 /\ IsSpace(s[1]) THEN TrimLeft(Tail(s)) ELSE s

RECURSIVE TrimRight(_)
TrimRight(s) ==
    IF Len(s) > 0 /\ IsSpace(s[Len(s)])
    THEN TrimRight(SubSeq(s, 1, Len(s) - 1)) ELSE s

Trim(s) == TrimRight(TrimLeft(s))

\* s.replace(/['"]/g, '')
RECURSIVE StripQuotes(_)
StripQuotes(s) ==
    IF Len(s) = 0 THEN <<>>
    ELSE IF s[1] \in {"'", "\""} THEN StripQuotes(Tail(s))
    ELSE <<s[1]>> \o StripQuotes(Tail(s))

\* s.split(',')[0]
RECURSIVE BeforeComma(_)
BeforeComma(s) ==
    IF Len(s) = 0 \/ s[1] = "," THEN <<>>
    ELSE <<s[1]>> \o BeforeComma(Tail(s))

-----------------------------------------------------------------------------
(***************************************************************************)
(* DesignAnalyzerService: colours.                                         *)
(***************************************************************************)

\* The match of /rgba?\((\d+),\s*(\d+),\s*(\d+)/ that starts at position p.
\* Every quantifier is followed by a character its own class excludes, so
\* the greedy match is the only one.
RgbMatchAt(s, p) ==
    LET open == IF CharAt(s, p + 3) = "a" THEN p + 4 ELSE p + 3
        b1 == open + 1
        e1 == DigitRunEnd(s, b1)
        b2 == SpaceRunEnd(s, e1 + 1)
        e2 == DigitRunEnd(s, b2)
        b3 == SpaceRunEnd(s, e2 + 1)
        e3 == DigitRunEnd(s, b3)
        ok == /\ CharAt(s, p) = "r" /\ CharAt(s, p + 1) = "g"
              /\ CharAt(s, p + 2) = "b"
              /\ CharAt(s, open) = "("
              /\ e1 > b1 /\ CharAt(s, e1) = ","
              /\ e2 > b2 /\ CharAt(s, e2) = ","
              /\ e3 > b3
    IN  IF ok
        THEN [ok |-> TRUE, g1 |-> Slice(s, b1, e1 - 1),
              g2 |-> Slice(s, b2, e2 - 1), g3 |-> Slice(s, b3, e3 - 1)]
        ELSE [ok |-> FALSE, g1 |-> <<>>, g2 |-> <<>>, g3 |-> <<>>]

\* rgb.match(...): the leftmost match, or no match
RgbMatch(s) ==
    LET starts == {p \in 1..Len(s) : RgbMatchAt(s, p).ok}
    IN  IF starts = {}
        THEN [ok |-> FALSE, g1 |-> <<>>, g2 |-> <<>>, g3 |-> <<>>]
        ELSE RgbMatchAt(s, CHOOSE p \in starts : \A q \in starts : p <= q)

\* A plausible slip: the local function hex without its zero padding.
HexPairUnpadded(x) == toString16(parseInt(x))

\* the local function hex of rgbToHex
HexPair(x) ==
    LET h == toString16(parseInt(x))
    IN  IF Len(h) = 1 THEN <<"0">> \o h ELSE h

\* A plausible slip: the converted value without its leading '#'.
rgbToHexNoPrefix(rgb) ==
    IF CharAt(rgb, 1) = "#" THEN rgb
    ELSE LET match == RgbMatch(rgb)
         IN  IF ~match.ok THEN <<"#", "0", "0", "0", "0", "0", "0">>
             ELSE HexPair(match.g1) \o HexPair(match.g2) \o HexPair(match.g3)

rgbToHex(rgb) ==
    IF CharAt(rgb, 1) = "#" THEN rgb
    ELSE LET match == RgbMatch(rgb)
         IN  IF ~match.ok THEN <<"#", "0", "0", "0", "0", "0", "0">>
             ELSE <<"#">> \o HexPair(match.g1) \o HexPair(match.g2)
                          \o HexPair(match.g3)

\* /^#?([a-f\d]{2})([a-f\d]{2})([a-f\d]{2})$/i ; null when it does not match
hexToRgb(hex) ==
    LET body == IF CharAt(hex, 1) = "#" THEN Tail(hex) ELSE hex
    IN  IF Len(body) = 6 /\ \A i \in 1..6 : IsHexDigit(body[i])
        THEN [isNull |-> FALSE,
              r |-> parseHex(SubSeq(body, 1, 2)),
              g |-> parseHex(SubSeq(body, 3, 4)),
              b |-> parseHex(SubSeq(body, 5, 6))]
        ELSE [isNull |-> TRUE, r |-> 0, g |-> 0, b |-> 0]

\* rgb.r on a null rgb is a TypeError.  brightness is compared times 1000.
categorizeColor(hex) ==
    LET rgb == hexToRgb(hex)
        brightness1000 == rgb.r * 299 + rgb.g * 587 + rgb.b * 114
    IN  IF rgb.isNull THEN [threw |-> TRUE, value |-> "TypeError"]
        ELSE [threw |-> FALSE,
              value |-> IF brightness1000 > 200000 THEN "background"
                        ELSE IF brightness1000 < 50000 THEN "text"
                        ELSE "accent"]

\* the callback of colors.map; mapped.usage carries the TypeError, if any
processColor(color, hex) ==
    [original |-> color, hex |-> hex, usage |-> categorizeColor(hex)]

\* A plausible slip: one default, black, for all three slots.
HexOrBlack(processed, i, default) ==
    IF i <= Len(processed) /\ processed[i].hex # <<>>
    THEN processed[i].hex ELSE <<"#", "0", "0", "0", "0", "0", "0">>

\* processed[i]?.hex || default
HexOr(processed, i, default) ==
    IF i <= Len(processed) /\ processed[i].hex # <<>>
    THEN processed[i].hex ELSE default

\* A plausible slip: the accent slot filled by brightness role, with the
\* first colour that categorizeColor calls 'accent'.
colorPaletteAccentByRole(processed) ==
    IF \E i \in 1..Len(processed) : processed[i].usage.threw
    THEN [threw |-> TRUE, value |-> "TypeError"]
    ELSE LET accents == {i \in 1..Len(processed) : processed[i].usage.value = "accent"}
         IN  [threw |-> FALSE,
              value |-> [primary   |-> HexOr(processed, 1, <<"#", "0", "0", "0", "0", "0", "0">>),
                         secondary |-> HexOr(processed, 2, <<"#", "6", "6", "6", "6", "6", "6">>),
                         accent    |-> IF accents = {} THEN <<"#", "0", "0", "6", "6", "c", "c">>
                                       ELSE processed[CHOOSE i \in accents :
                                                        \A j \in accents : i <= j].hex,
                         all |-> [i \in 1..Len(processed) |->
                                    [original |-> processed[i].original,
                                     hex |-> processed[i].hex,
                                     usage |-> processed[i].usage.value]]]]

\* the object literal that analyzeColors returns
colorPalette(processed) ==
    IF \E i \in 1..Len(processed) : processed[i].usage.threw
    THEN [threw |-> TRUE, value |-> "TypeError"]
    ELSE [threw |-> FALSE,
          value |-> [primary   |-> HexOr(processed, 1, <<"#", "0", "0", "0", "0", "0", "0">>),
                     secondary |-> HexOr(processed, 2, <<"#", "6", "6", "6", "6", "6", "6">>),
                     accent    |-> HexOr(processed, 3, <<"#", "0", "0", "6", "6", "c", "c">>),
                     all |-> [i \in 1..Len(processed) |->
                                [original |-> processed[i].original,
                                 hex |-> processed[i].hex,
                                 usage |-> processed[i].usage.value]]]]

analyzeColors(colors) ==
    colorPalette([i \in 1..Len(colors) |->
                    processColor(colors[i], rgbToHex(colors[i]))])

-----------------------------------------------------------------------------
(***************************************************************************)
(* DesignAnalyzerService: typography, layout, products.                    *)
(***************************************************************************)
SerifKeywords ==
    {<<"T", "i", "m", "e", "s">>, <<"G", "e", "o", "r", "g", "i", "a">>,
     <<"G", "a", "r", "a", "m", "o", "n", "d">>, <<"S", "e", "r", "i", "f">>}

MonospaceKeywords ==
    {<<"C", "o", "u", "r", "i", "e", "r">>, <<"M", "o", "n", "a", "c", "o">>,
     <<"C", "o", "n", "s", "o", "l", "a", "s">>,
     <<"M", "o", "n", "o", "s", "p", "a", "c", "e">>}

\* A plausible slip: the monospace list tested first.
categorizeFontFamilyMonospaceFirst(font) ==
    IF \E k \in MonospaceKeywords : Includes(font, k) THEN "monospace"
    ELSE IF \E k \in SerifKeywords : Includes(font, k) THEN "serif"
    ELSE "sans-serif"

categorizeFontFamily(font) ==
    IF \E k \in SerifKeywords : Includes(font, k) THEN "serif"
    ELSE IF \E k \in MonospaceKeywords : Includes(font, k) THEN "monospace"
    ELSE "sans-serif"

getFontFallback(font) ==
    LET category == categorizeFontFamily(font)
    IN  IF category = "serif" THEN "Georgia, serif"
        ELSE IF category = "monospace" THEN "Courier New, monospace"
        ELSE "Arial, sans-serif"

\* The default entry has no fallback property: its domain lacks "fallback".
DefaultFont == [family |-> <<"A", "r", "i", "a", "l">>, category |-> "sans-serif"]

\* A plausible slip: body taken from the first entry, as heading is.
analyzeTypographyBodyFirst(fonts) ==
    LET processed == [i \in 1..Len(fonts) |->
            LET cleaned == Trim(BeforeComma(StripQuotes(fonts[i])))
            IN  [family |-> cleaned,
                 category |-> categorizeFontFamily(cleaned),
                 fallback |-> getFontFallback(cleaned)]]
    IN  [heading |-> IF Len(processed) >= 1 THEN processed[1] ELSE DefaultFont,
         body |-> IF Len(processed) >= 1 THEN processed[1] ELSE DefaultFont,
         all |-> processed]

analyzeTypography(fonts) ==
    LET processed == [i \in 1..Len(fonts) |->
            LET cleaned == Trim(BeforeComma(StripQuotes(fonts[i])))
            IN  [family |-> cleaned,
                 category |-> categorizeFontFamily(cleaned),
                 fallback |-> getFontFallback(cleaned)]]
    IN  [heading |-> IF Len(processed) >= 1 THEN processed[1] ELSE DefaultFont,
         body |-> IF Len(processed) >= 2 THEN processed[2]
                  ELSE IF Len(processed) >= 1 THEN processed[1]
                  ELSE DefaultFont,
         all |-> processed]

analyzeLayout(layout) ==
    [structure |-> [header |-> layout.hasHeader,
                    navigation |-> layout.hasNav,
                    mainContent |-> layout.hasMainContent,
                    footer |-> layout.hasFooter],
     dimensions |-> [headerHeight |-> layout.headerHeight,
                     footerHeight |-> layout.footerHeight],
     recommendations |-> [mobileFirst |-> TRUE,
                          responsiveGrid |-> "flexbox",
                          breakpoints |-> [mobile |-> 768, tablet |-> 1024,
                                           desktop |-> 1440]]]

\* A plausible slip: no test for the empty list.
analyzeProductStructureNoEmptyTest(prods) ==
    [isNull |-> FALSE,
     count |-> Len(prods),
     hasImages |-> \E i \in 1..Len(prods) : prods[i].image # "",
     hasPrices |-> \E i \in 1..Len(prods) : prods[i].price # "",
     structure |-> [nameField |-> "name", priceField |-> "price",
                    imageField |-> "image", linkField |-> "link"],
     samples |-> SubSeq(prods, 1, IF Len(prods) < 3 THEN Len(prods) ELSE 3)]

\* A candidate's image / price is truthy when it is a non-empty string.
analyzeProductStructure(prods) ==
    IF Len(prods) = 0 THEN [isNull |-> TRUE]
    ELSE [isNull |-> FALSE,
          count |-> Len(prods),
          hasImages |-> \E i \in 1..Len(prods) : prods[i].image # "",
          hasPrices |-> \E i \in 1..Len(prods) : prods[i].price # "",
          structure |-> [nameField |-> "name", priceField |-> "price",
                         imageField |-> "image", linkField |-> "link"],
          samples |-> SubSeq(prods, 1, IF Len(prods) < 3 THEN Len(prods) ELSE 3)]

-----------------------------------------------------------------------------
(***************************************************************************)
(* JSON.parse, for texts built from objects, arrays, strings without       *)
(* escapes, unsigned integers and null.  A value is a tagged record.       *)
(***************************************************************************)
ParseFail == [ok |-> FALSE, next |-> 0, val |-> [t |-> "none"]]

\* position of the first '"' at or after i, 0 when there is none
RECURSIVE QuoteAt(_, _)
QuoteAt(s, i) ==
    IF i > Len(s) THEN 0
    ELSE IF s[i] = "\"" THEN i
    ELSE QuoteAt(s, i + 1)

RECURSIVE ParseValue(_, _)
RECURSIVE ParseMembers(_, _, _)
RECURSIVE ParseItems(_, _, _)

\* members of an object, after '{' or ','; acc holds the members read so far
ParseMembers(s, i, acc) ==
    LET k == SpaceRunEnd(s, i)
        q == QuoteAt(s, k + 1)
        c == SpaceRunEnd(s, q + 1)
        v == ParseValue(s, c + 1)
        more == acc \o <<[key |-> Slice(s, k + 1, q - 1), value |-> v.val]>>
    IN  IF CharAt(s, k) # "\"" \/ q = 0 \/ CharAt(s, c) # ":" THEN ParseFail
        ELSE IF ~v.ok THEN ParseFail
        ELSE IF CharAt(s, v.next) = "," THEN ParseMembers(s, v.next + 1, more)
        ELSE IF CharAt(s, v.next) = "}"
             THEN [ok |-> TRUE, next |-> SpaceRunEnd(s, v.next + 1),
                   val |-> [t |-> "object", members |-> more]]
        ELSE ParseFail

\* items of an array, after '[' or ','; acc holds the items read so far
ParseItems(s, i, acc) ==
    LET v == ParseValue(s, i)
        more == acc \o <<v.val>>
    IN  IF ~v.ok THEN ParseFail
        ELSE IF CharAt(s, v.next) = "," THEN ParseItems(s, v.next + 1, more)
        ELSE IF CharAt(s, v.next) = "]"
             THEN [ok |-> TRUE, next |-> SpaceRunEnd(s, v.next + 1),
                   val |-> [t |-> "array", items |-> more]]
        ELSE ParseFail

\* the value that starts at position i (after white space); next is the
\* position after the value and the white space that follows it
ParseValue(s, i) ==
    LET b == SpaceRunEnd(s, i)
        c == CharAt(s, b)
    IN  IF c = "{"
        THEN IF CharAt(s, SpaceRunEnd(s, b + 1)) = "}"
             THEN [ok |-> TRUE,
                   next |-> SpaceRunEnd(s, SpaceRunEnd(s, b + 1) + 1),
                   val |-> [t |-> "object", members |-> <<>>]]
             ELSE ParseMembers(s, b + 1, <<>>)
        ELSE IF c = "["
        THEN IF CharAt(s, SpaceRunEnd(s, b + 1)) = "]"
             THEN [ok |-> TRUE,
                   next |-> SpaceRunEnd(s, SpaceRunEnd(s, b + 1) + 1),
                   val |-> [t |-> "array", items |-> <<>>]]
             ELSE ParseItems(s, b + 1, <<>>)
        ELSE IF c = "\""
        THEN LET q == QuoteAt(s, b + 1)
             IN  IF q = 0 THEN ParseFail
                 ELSE [ok |-> TRUE, next |-> SpaceRunEnd(s, q + 1),
                       val |-> [t |-> "string", chars |-> Slice(s, b + 1, q - 1)]]
        ELSE IF IsDigit(c)
        THEN LET e == DigitRunEnd(s, b)
             IN  [ok |-> TRUE, next |-> SpaceRunEnd(s, e),
                  val |-> [t |-> "number", n |-> parseInt(Slice(s, b, e - 1))]]
        ELSE IF b + 3 <= Len(s) /\ Slice(s, b, b + 3) = <<"n", "u", "l", "l">>
        THEN [ok |-> TRUE, next |-> SpaceRunEnd(s, b + 4), val |-> [t |-> "null"]]
        ELSE ParseFail

\* JSON.parse(text): ok = FALSE stands for the SyntaxError it throws
JSONParse(text) ==
    LET r == ParseValue(text, 1)
    IN  IF r.ok /\ r.next = Len(text) + 1 THEN r ELSE ParseFail

-----------------------------------------------------------------------------
(***************************************************************************)
(* DesignAnalyzerService.getAIRecommendations and analyzeDesign.           *)
(***************************************************************************)
\* the object literal of the catch block
FallbackRecommendations ==
    [improvements |-> <<"Modern design patterns", "Better color contrast", "Clear CTAs">>,
     ux |-> <<"Simplified navigation", "Faster load times", "Better mobile experience">>,
     mobile |-> <<"Touch-friendly buttons", "Responsive images", "Optimized fonts">>,
     conversion |-> <<"Clear value proposition", "Trust badges", "Simplified checkout">>]

\* The template literal reads design.colors, design.fonts and
\* products.length; each is a TypeError when the property is missing.
PromptBuilds(sd) ==
    /\ "design" \in DOMAIN sd
    /\ "colors" \in DOMAIN sd.design
    /\ "fonts" \in DOMAIN sd.design
    /\ "products" \in DOMAIN sd

\* the completion request rejects, or its content is not JSON
AICallFails(outcome) ==
    \/ outcome.kind \in {"networkError", "timeout"}
    \/ outcome.kind = "response" /\ ~JSONParse(outcome.content).ok

\* A plausible slip: the catch block logs and rethrows, as the catch blocks
\* of analyzeDesign and scrapeWebsite do.
getAIRecommendationsRethrow(sd, outcome) ==
    IF ~PromptBuilds(sd)
    THEN [threw |-> TRUE, requested |-> FALSE, value |-> "TypeError"]
    ELSE IF AICallFails(outcome)
    THEN [threw |-> TRUE, requested |-> TRUE, value |-> outcome.kind]
    ELSE [threw |-> FALSE, requested |-> TRUE,
          value |-> JSONParse(outcome.content).val]

\* requested: the completion request was issued
getAIRecommendations(sd, outcome) ==
    IF ~PromptBuilds(sd)
    THEN [threw |-> FALSE, requested |-> FALSE, value |-> FallbackRecommendations]
    ELSE IF outcome.kind \in {"networkError", "timeout"}
    THEN [threw |-> FALSE, requested |-> TRUE, value |-> FallbackRecommendations]
    ELSE IF ~JSONParse(outcome.content).ok
    THEN [threw |-> FALSE, requested |-> TRUE, value |-> FallbackRecommendations]
    ELSE [threw |-> FALSE, requested |-> TRUE,
          value |-> JSONParse(outcome.content).val]

NoAICall == [threw |-> FALSE, requested |-> FALSE, value |-> "not called"]

\* The properties of the analysis literal are evaluated in source order:
\* an exception of analyzeColors leaves the later ones unevaluated, and the
\* catch block rethrows.  aiCall records the call of getAIRecommendations.
analyzeDesign(sd, outcome) ==
    LET colors == analyzeColors(sd.design.colors)
        ai == getAIRecommendations(sd, outcome)
    IN  IF colors.threw
        THEN [state |-> "threw", error |-> colors.value, aiCall |-> NoAICall]
        ELSE IF ai.threw
        THEN [state |-> "threw", error |-> ai.value, aiCall |-> ai]
        ELSE [state |-> "returned",
              value |-> [colors |-> colors.value,
                         typography |-> analyzeTypography(sd.design.fonts),
                         layout |-> analyzeLayout(sd.design.layout),
                         products |-> analyzeProductStructure(sd.products),
                         aiRecommendations |-> ai.value],
              aiCall |-> ai]

-----------------------------------------------------------------------------
(***************************************************************************)
(* Inputs of the analysis: scraped sites and completion-service outcomes.  *)
(***************************************************************************)
\* sequences over S of length at most n
SeqsUpTo(S, n) == UNION {[1..k -> S] : k \in 0..n}

\* '#fff', '#ffaa00', 'rgb(255, 0, 0)', 'rgb(300, 0, 0)',
\* 'rgba(0, 0, 0, 0.5)', 'red'
ColorStrings ==
    {<<"#", "f", "f", "f">>,
     <<"#", "f", "f", "a", "a", "0", "0">>,
     <<"r", "g", "b", "(", "2", "5", "5", ",", " ", "0", ",", " ", "0", ")">>,
     <<"r", "g", "b", "(", "3", "0", "0", ",", " ", "0", ",", " ", "0", ")">>,
     <<"r", "g", "b", "a", "(", "0", ",", " ", "0", ",", " ", "0", ",", " ", "0", ".", "5", ")">>,
     <<"r", "e", "d">>}

\* "'Times New Roman', serif", 'Consolas', ' "Helvetica Neue" , Arial'
FontStrings ==
    {<<"'", "T", "i", "m", "e", "s", " ", "N", "e", "w", " ", "R", "o", "m", "a", "n", "'", ",", " ", "s", "e", "r", "i", "f">>,
     <<"C", "o", "n", "s", "o", "l", "a", "s">>,
     <<" ", "\"", "H", "e", "l", "v", "e", "t", "i", "c", "a", " ", "N", "e", "u", "e", "\"", " ", ",", " ", "A", "r", "i", "a", "l">>}

LayoutSamples ==
    {[hasHeader |-> TRUE, hasNav |-> TRUE, hasMainContent |-> TRUE,
      hasFooter |-> TRUE, headerHeight |-> 80, footerHeight |-> 120],
     [hasHeader |-> FALSE, hasNav |-> FALSE, hasMainContent |-> TRUE,
      hasFooter |-> FALSE, headerHeight |-> 0, footerHeight |-> 0]}

\* candidate records as extractProducts builds them ('' = nothing found)
CandidateSamples ==
    {[name |-> "Mug", price |-> "$5", image |-> "/mug.png", link |-> "/mug"],
     [name |-> "", price |-> "", image |-> "", link |-> ""]}

ScrapedSites ==
    {[url |-> "https://shop.example",
      design |-> [colors |-> cs, fonts |-> fs, layout |-> l],
      products |-> ps] :
        cs \in SeqsUpTo(ColorStrings, MaxColors),
        fs \in SeqsUpTo(FontStrings, MaxFonts),
        l \in LayoutSamples,
        ps \in SeqsUpTo(CandidateSamples, MaxCandidates)}

\* message.content of the completion: a JSON object, prose, truncated JSON
ResponseBodies ==
    {<<"{", "\"", "i", "m", "p", "r", "o", "v", "e", "m", "e", "n", "t", "s", "\"", ":", "[", "\"", "U", "s", "e", " ", "c", "o", "n", "t", "r", "a", "s", "t", "\"", "]", ",", "\"", "u", "x", "\"", ":", "[", "]", "}">>,
     <<"S", "o", "r", "r", "y", ",", " ", "I", " ", "c", "a", "n", "n", "o", "t", " ", "h", "e", "l", "p">>,
     <<"{", "\"", "u", "x", "\"", ":">>}

AIOutcomes ==
    {[kind |-> "networkError", content |-> <<>>],
     [kind |-> "timeout", content |-> <<>>]}
    \cup {[kind |-> "response", content |-> b] : b \in ResponseBodies}

-----------------------------------------------------------------------------
(***************************************************************************)
(* Values of the variables of a service that a specification leaves idle.  *)
(***************************************************************************)
NumCalls == 2           \* concurrent scrapeWebsite invocations

Calls == 1..NumCalls

ScrapeIdle ==
    /\ browser = 0
    /\ launched = 0
    /\ openPages = {}
    /\ pc = [c \in Calls |-> "idle"]
    /\ elapsed = [c \in Calls |-> 0]
    /\ usedHandles = {}
    /\ failedAt = [c \in Calls |-> [at |-> "", error |-> ""]]
    /\ events = [c \in Calls |-> <<>>]
    /\ closed = {}

ExtractIdle ==
    /\ dom = <<>>
    /\ products = <<>>
    /\ extracted = FALSE

\* no completion request has been made
CompletionIdle == [pc |-> "idle", attempt |-> 0, elapsed |-> 0]

AnalyzeIdle ==
    /\ scrapedData = [url |-> "", design |-> [colors |-> <<>>, fonts |-> <<>>],
                      products |-> <<>>]
    /\ aiOutcome = [kind |-> "networkError", content |-> <<>>]
    /\ analysis = [state |-> "pending"]
    /\ completion = CompletionIdle

StoreIdle ==
    /\ stores = <<>>
    /\ lastOp = "none"
    /\ reply = [code |-> 0]

Pending == [pending |-> TRUE]

ApplyIdle ==
    /\ call = [fn |-> "none"]
    /\ result = Pending

RequestIdle == request = [pc |-> "none"]

-----------------------------------------------------------------------------
(***************************************************************************)
(* Specification of the analysis: a request arrives with a scraped site,   *)
(* the completion service behaves in one of its ways, analyzeDesign runs.  *)
(***************************************************************************)
AnalyzeInit ==
    /\ scrapedData \in ScrapedSites
    /\ aiOutcome \in AIOutcomes
    /\ analysis = [state |-> "pending"]
    /\ completion = CompletionIdle
    /\ ScrapeIdle /\ ExtractIdle /\ StoreIdle /\ ApplyIdle /\ RequestIdle

AnalyzeDesign ==
    /\ analysis.state = "pending"
    /\ analysis' = analyzeDesign(scrapedData, aiOutcome)
    /\ UNCHANGED <<scrapedData, aiOutcome, completion>>
    /\ UNCHANGED <<scrapeVars, extractVars, storeVars, applyVars, requestVars>>

AnalyzeNext == AnalyzeDesign

AnalyzeSpec == AnalyzeInit /\ [][AnalyzeNext]_vars

-----------------------------------------------------------------------------
(***************************************************************************)
(* The completion request of getAIRecommendations in time.                 *)
(*                                                                         *)
(* getAIRecommendations passes no timeout and no retry count to the        *)
(* client or to chat.completions.create, so the openai client's defaults   *)
(* apply: a request without an answer is aborted after the default         *)
(* timeout and repeated up to the default number of retries, after which   *)
(* create rejects with a timeout error.  aiOutcome.kind = "timeout" is the *)
(* service that never answers.                                             *)
(***************************************************************************)
AITickMs == 300000      \* granularity of the request clock

\* the openai client's request timeout when it is given none (10 minutes)
OpenAIDefaultTimeout == 600000

\* the openai client's retry count when it is given none
OpenAIDefaultMaxRetries == 2

\* new OpenAI({ apiKey }) and create(...) without timeout
CompletionTimeout == OpenAIDefaultTimeout

\* new OpenAI({ apiKey }) and create(...) without maxRetries
CompletionMaxRetries == OpenAIDefaultMaxRetries

\* A plausible slip: try around JSON.parse only, so that a rejection of
\* the request itself leaves getAIRecommendations as an exception.
getAIRecommendationsParseGuardOnly(sd, outcome) ==
    IF ~PromptBuilds(sd)
    THEN [threw |-> TRUE, requested |-> FALSE, value |-> "TypeError"]
    ELSE IF outcome.kind \in {"networkError", "timeout"}
    THEN [threw |-> TRUE, requested |-> TRUE, value |-> outcome.kind]
    ELSE getAIRecommendations(sd, outcome)

\* what the await of create(...) settles with, and what follows it
completionResult(sd, outcome) == getAIRecommendations(sd, outcome)

\* scraped sites for the request: some lack the properties the prompt reads
PromptSites ==
    {s \in ScrapedSites : Len(s.design.colors) = 0}
    \cup {[url |-> "https://shop.example", products |-> <<>>]}

CompletionInit ==
    /\ scrapedData \in PromptSites
    /\ aiOutcome \in AIOutcomes
    /\ analysis = [state |-> "pending"]
    /\ completion = CompletionIdle
    /\ ScrapeIdle /\ ExtractIdle /\ StoreIdle /\ ApplyIdle /\ RequestIdle

\* getAIRecommendations is called: the prompt is built (a TypeError goes to
\* the catch block) and the request is sent
RequestCompletion ==
    /\ completion.pc = "idle"
    /\ completion' =
          IF PromptBuilds(scrapedData)
          THEN [pc |-> "inFlight", attempt |-> 1, elapsed |-> 0]
          ELSE [pc |-> "done", attempt |-> 0, elapsed |-> 0,
                result |-> completionResult(scrapedData, aiOutcome)]
    /\ UNCHANGED <<scrapedData, aiOutcome, analysis>>
    /\ UNCHANGED <<scrapeVars, extractVars, storeVars, applyVars, requestVars>>

\* the service answers, or the connection fails, before the timer fires
CompletionSettles ==
    /\ completion.pc = "inFlight"
    /\ aiOutcome.kind # "timeout"
    /\ completion.elapsed < CompletionTimeout
    /\ completion' = [pc |-> "done", attempt |-> completion.attempt,
                      elapsed |-> completion.elapsed,
                      result |-> completionResult(scrapedData, aiOutcome)]
    /\ UNCHANGED <<scrapedData, aiOutcome, analysis>>
    /\ UNCHANGED <<scrapeVars, extractVars, storeVars, applyVars, requestVars>>

\* time passes while the request is unanswered
CompletionTick ==
    /\ completion.pc = "inFlight"
    /\ completion.elapsed < CompletionTimeout
    /\ completion' = [completion EXCEPT !.elapsed =
          IF completion.elapsed + AITickMs > CompletionTimeout
          THEN CompletionTimeout ELSE completion.elapsed + AITickMs]
    /\ UNCHANGED <<scrapedData, aiOutcome, analysis>>
    /\ UNCHANGED <<scrapeVars, extractVars, storeVars, applyVars, requestVars>>

\* the client's timer aborts the attempt and the client sends it again
CompletionRetries ==
    /\ completion.pc = "inFlight"
    /\ completion.elapsed >= CompletionTimeout
    /\ completion.attempt <= CompletionMaxRetries
    /\ completion' = [completion EXCEPT !.attempt = completion.attempt + 1,
                                        !.elapsed = 0]
    /\ UNCHANGED <<scrapedData, aiOutcome, analysis>>
    /\ UNCHANGED <<scrapeVars, extractVars, storeVars, applyVars, requestVars>>

\* the last attempt is aborted: create(...) rejects with a timeout error
CompletionTimesOut ==
    /\ completion.pc = "inFlight"
    /\ completion.elapsed >= CompletionTimeout
    /\ completion.attempt > CompletionMaxRetries
    /\ completion' = [pc |-> "done", attempt |-> completion.attempt,
                      elapsed |-> completion.elapsed,
                      result |-> completionResult(scrapedData,
                                    [kind |-> "timeout", content |-> <<>>])]
    /\ UNCHANGED <<scrapedData, aiOutcome, analysis>>
    /\ UNCHANGED <<scrapeVars, extractVars, storeVars, applyVars, requestVars>>

CompletionNext ==
    \/ RequestCompletion
    \/ CompletionSettles
    \/ CompletionTick
    \/ CompletionRetries
    \/ CompletionTimesOut

\* The event loop runs the call that was made and delivers every due
\* timer; nothing obliges the service to answer.
CompletionLiveSpec ==
    /\ CompletionInit /\ [][CompletionNext]_vars
    /\ WF_vars(RequestCompletion)
    /\ WF_vars(CompletionTick \/ CompletionRetries \/ CompletionTimesOut)

-----------------------------------------------------------------------------
(***************************************************************************)
(* AIScraperService.extractProducts.                                       *)
(*                                                                         *)
(* An element of the document is a record: sels is the set of the          *)
(* selectors of productSelectors it matches, the other fields are what     *)
(* the four find(...).first() reads give inside it ("" = nothing found).   *)
(* A candidate keeps the document position of its element in el.           *)
(***************************************************************************)
MaxPrefix == 2          \* leading elements of a page, drawn freely
MaxRun == 11            \* repetitions of one element that end a page

SliceLimit == 10        \* items = $(selector).slice(0, 10)

\* A plausible slip: structured data tried first.
productSelectorsMicrodataFirst ==
    <<"[itemtype*=\"Product\"]", ".product", ".product-item", ".product-card",
      "[data-product]">>

productSelectors ==
    <<".product", ".product-item", ".product-card",
      "[itemtype*=\"Product\"]", "[data-product]">>

\* $(selector): positions of the matching elements, in document order
RECURSIVE Select(_, _, _)
Select(d, selector, from) ==
    IF from > Len(d) THEN <<>>
    ELSE IF selector \in d[from].sels
         THEN <<from>> \o Select(d, selector, from + 1)
         ELSE Select(d, selector, from + 1)

\* .slice(0, n)
Take(q, n) == SubSeq(q, 1, IF Len(q) < n THEN Len(q) ELSE n)

\* the products.push(...) of items.each
Candidates(d, items) ==
    [k \in 1..Len(items) |->
        [el |-> items[k], name |-> d[items[k]].name, price |-> d[items[k]].price,
         image |-> d[items[k]].image, link |-> d[items[k]].link]]

\* A plausible slip: the loop without its break, so that every selector
\* with a match contributes.
RECURSIVE extractLoopNoBreak(_, _)
extractLoopNoBreak(d, k) ==
    IF k > Len(productSelectors) THEN <<>>
    ELSE Candidates(d, Take(Select(d, productSelectors[k], 1), SliceLimit))
         \o extractLoopNoBreak(d, k + 1)

\* the for loop from its k-th selector on
RECURSIVE extractLoop(_, _)
extractLoop(d, k) ==
    IF k > Len(productSelectors) THEN <<>>
    ELSE LET items == Take(Select(d, productSelectors[k], 1), SliceLimit)
         IN  IF Len(items) > 0 THEN Candidates(d, items)
             ELSE extractLoop(d, k + 1)

extractProducts(d) == extractLoop(d, 1)

ElementKinds ==
    {[sels |-> {}, name |-> "", price |-> "", image |-> "", link |-> ""],
     [sels |-> {".product"}, name |-> "Mug", price |-> "$5",
      image |-> "/mug.png", link |-> "/mug"],
     [sels |-> {".product-item"}, name |-> "Cup", price |-> "",
      image |-> "", link |-> "/cup"],
     [sels |-> {".product-card"}, name |-> "Pot", price |-> "$9",
      image |-> "", link |-> ""],
     [sels |-> {"[itemtype*=\"Product\"]"}, name |-> "Pan", price |-> "$7",
      image |-> "/pan.png", link |-> "/pan"],
     [sels |-> {"[data-product]"}, name |-> "", price |-> "",
      image |-> "/jar.png", link |-> ""],
     [sels |-> {".product", "[itemtype*=\"Product\"]"}, name |-> "Lid",
      price |-> "$1", image |-> "", link |-> "/lid"]}

\* a free prefix followed by a run of one repeated element
Pages ==
    {pre \o [i \in 1..n |-> e] :
        pre \in SeqsUpTo(ElementKinds, MaxPrefix), n \in 0..MaxRun,
        e \in ElementKinds}

ExtractInit ==
    /\ dom \in Pages
    /\ products = <<>>
    /\ extracted = FALSE
    /\ ScrapeIdle /\ AnalyzeIdle /\ StoreIdle /\ ApplyIdle /\ RequestIdle

ExtractProducts ==
    /\ ~extracted
    /\ products' = extractProducts(dom)
    /\ extracted' = TRUE
    /\ UNCHANGED dom
    /\ UNCHANGED <<scrapeVars, analyzeVars, storeVars, applyVars, requestVars>>

ExtractNext == ExtractProducts

ExtractSpec == ExtractInit /\ [][ExtractNext]_vars

-----------------------------------------------------------------------------
(***************************************************************************)
(* AIScraperService.scrapeWebsite, one process per invocation.             *)
(*                                                                         *)
(* pc[c] names the await the invocation is suspended at.  Every await      *)
(* either resolves or rejects; a rejection is caught by the catch block,   *)
(* which logs and rethrows.  A navigation stays pending until the page     *)
(* answers or the navigation timer of page.goto fires.                     *)
(***************************************************************************)
TickMs == 10000         \* granularity of the navigation clock

\* { timeout: 30000 } of the desktop page.goto
DesktopGotoTimeout == 30000

\* puppeteer's navigation timeout when page.goto is given none
DefaultNavigationTimeout == 30000

\* puppeteer: a timeout of 0 disables the navigation timer
NoNavigationTimeout == 0

\* A plausible slip: { timeout: 0 }, which disables the navigation timer.
MobileGotoTimeoutDisabled == NoNavigationTimeout

\* getMobileScreenshot passes no timeout to page.goto
MobileGotoTimeout == DefaultNavigationTimeout

GotoTimeout(at) ==
    IF at = "gotoDesktop" THEN DesktopGotoTimeout ELSE MobileGotoTimeout

Navigations == {"gotoDesktop", "gotoMobile"}

\* A plausible slip: getMobileScreenshot resizes the page and takes the
\* screenshot without loading the URL again.
AwaitOrderNoRenavigation ==
    <<"newPage", "viewportDesktop", "gotoDesktop", "content", "evaluate",
      "extractProducts", "screenshotDesktop", "viewportMobile",
      "screenshotMobile", "pageClose">>

\* the awaits of scrapeWebsite after newPage, in source order; the last
\* one is followed by the return
AwaitOrder ==
    <<"newPage", "viewportDesktop", "gotoDesktop", "content", "evaluate",
      "extractProducts", "screenshotDesktop", "viewportMobile", "gotoMobile",
      "screenshotMobile", "pageClose">>

AfterAwait(at) ==
    LET i == CHOOSE k \in 1..Len(AwaitOrder) : AwaitOrder[k] = at
    IN  IF i = Len(AwaitOrder) THEN "returned" ELSE AwaitOrder[i + 1]

Finished == {"returned", "threw"}

\* the request a call issues when it reaches an await after newPage, with
\* the arguments the source passes
Request(at, c) ==
    CASE at = "viewportDesktop" ->
           [op |-> "setViewport", width |-> 1920, height |-> 1080, isMobile |-> FALSE]
      [] at = "gotoDesktop" -> [op |-> "goto", url |-> c]
      [] at = "screenshotDesktop" -> [op |-> "screenshot", fullPage |-> TRUE]
      [] at = "viewportMobile" ->
           [op |-> "setViewport", width |-> 375, height |-> 667, isMobile |-> TRUE]
      [] at = "gotoMobile" -> [op |-> "goto", url |-> c]
      [] at = "screenshotMobile" -> [op |-> "screenshot", fullPage |-> TRUE]
      [] OTHER -> [op |-> at]

\* the call resumes after the await `at` and issues its next request
Issue(c, at) ==
    events' = [events EXCEPT ![c] =
                 IF AfterAwait(at) = "returned" THEN @
                 ELSE Append(@, Request(AfterAwait(at), c))]

\* this.browser.newPage() on the handle h: the handle may have been closed
NewPage(c, h) ==
    events' = [events EXCEPT ![c] =
                 Append(@, [op |-> "newPage", running |-> h \notin closed])]

ScrapeInit ==
    /\ ScrapeIdle
    /\ ExtractIdle /\ AnalyzeIdle /\ StoreIdle /\ ApplyIdle /\ RequestIdle

\* scrapeWebsite(url) is called: !this.browser is tested; with a browser
\* the call goes on to this.browser.newPage() in the same turn
Invoke(c) ==
    /\ pc[c] = "idle"
    /\ IF browser = 0
       THEN /\ pc' = [pc EXCEPT ![c] = "launch"]
            /\ UNCHANGED <<usedHandles, events>>
       ELSE /\ pc' = [pc EXCEPT ![c] = "newPage"]
            /\ usedHandles' = usedHandles \cup {browser}
            /\ NewPage(c, browser)
    /\ UNCHANGED <<browser, launched, openPages, elapsed, failedAt, closed>>
    /\ UNCHANGED <<extractVars, analyzeVars, storeVars, applyVars, requestVars>>

\* puppeteer.launch resolves: initialize stores the handle, scrapeWebsite
\* resumes and calls this.browser.newPage()
LaunchResolves(c) ==
    /\ pc[c] = "launch"
    /\ launched' = launched + 1
    /\ browser' = launched + 1
    /\ usedHandles' = usedHandles \cup {launched + 1}
    /\ pc' = [pc EXCEPT ![c] = "newPage"]
    /\ NewPage(c, launched + 1)
    /\ UNCHANGED <<openPages, elapsed, failedAt, closed>>
    /\ UNCHANGED <<extractVars, analyzeVars, storeVars, applyVars, requestVars>>

\* an await other than a navigation resolves; newPage resolves only on a
\* browser that was running when it was asked
AwaitResolves(c) ==
    /\ pc[c] \in {AwaitOrder[k] : k \in 1..Len(AwaitOrder)} \ Navigations
    /\ pc[c] = "newPage" => events[c][Len(events[c])].running
    /\ pc' = [pc EXCEPT ![c] = AfterAwait(pc[c])]
    /\ Issue(c, pc[c])
    /\ openPages' = CASE pc[c] = "newPage" -> openPages \cup {c}
                      [] pc[c] = "pageClose" -> openPages \ {c}
                      [] OTHER -> openPages
    /\ elapsed' = [elapsed EXCEPT ![c] = 0]
    /\ UNCHANGED <<browser, launched, usedHandles, failedAt, closed>>
    /\ UNCHANGED <<extractVars, analyzeVars, storeVars, applyVars, requestVars>>

\* an await other than a navigation rejects (launch failure, closed
\* target, evaluation or screenshot error): catch logs and rethrows
AwaitRejects(c) ==
    /\ pc[c] \in ({"launch"} \cup {AwaitOrder[k] : k \in 1..Len(AwaitOrder)})
                    \ Navigations
    /\ failedAt' = [failedAt EXCEPT ![c] = [at |-> pc[c], error |-> "Error"]]
    /\ pc' = [pc EXCEPT ![c] = "threw"]
    /\ UNCHANGED <<browser, launched, openPages, elapsed, usedHandles, events, closed>>
    /\ UNCHANGED <<extractVars, analyzeVars, storeVars, applyVars, requestVars>>

\* page.goto rejects before its timer fires (DNS, TLS, HTTP failure)
NavigationFails(c) ==
    /\ pc[c] \in Navigations
    /\ GotoTimeout(pc[c]) = NoNavigationTimeout \/ elapsed[c] < GotoTimeout(pc[c])
    /\ failedAt' = [failedAt EXCEPT ![c] = [at |-> pc[c], error |-> "Error"]]
    /\ pc' = [pc EXCEPT ![c] = "threw"]
    /\ elapsed' = [elapsed EXCEPT ![c] = 0]
    /\ UNCHANGED <<browser, launched, openPages, usedHandles, events, closed>>
    /\ UNCHANGED <<extractVars, analyzeVars, storeVars, applyVars, requestVars>>

\* the page answers before the navigation timer fires
NavigationCompletes(c) ==
    /\ pc[c] \in Navigations
    /\ GotoTimeout(pc[c]) = NoNavigationTimeout \/ elapsed[c] < GotoTimeout(pc[c])
    /\ pc' = [pc EXCEPT ![c] = AfterAwait(pc[c])]
    /\ elapsed' = [elapsed EXCEPT ![c] = 0]
    /\ Issue(c, pc[c])
    /\ UNCHANGED <<browser, launched, openPages, usedHandles, failedAt, closed>>
    /\ UNCHANGED <<extractVars, analyzeVars, storeVars, applyVars, requestVars>>

\* time passes in a pending navigation whose timer is armed
Tick(c) ==
    /\ pc[c] \in Navigations
    /\ GotoTimeout(pc[c]) # NoNavigationTimeout
    /\ elapsed[c] < GotoTimeout(pc[c])
    /\ elapsed' = [elapsed EXCEPT ![c] =
          IF elapsed[c] + TickMs > GotoTimeout(pc[c])
          THEN GotoTimeout(pc[c]) ELSE elapsed[c] + TickMs]
    /\ UNCHANGED <<browser, launched, openPages, pc, usedHandles, failedAt,
                   events, closed>>
    /\ UNCHANGED <<extractVars, analyzeVars, storeVars, applyVars, requestVars>>

\* the navigation timer fires: page.goto rejects with a TimeoutError
NavigationTimesOut(c) ==
    /\ pc[c] \in Navigations
    /\ GotoTimeout(pc[c]) # NoNavigationTimeout
    /\ elapsed[c] >= GotoTimeout(pc[c])
    /\ failedAt' = [failedAt EXCEPT ![c] = [at |-> pc[c], error |-> "TimeoutError"]]
    /\ pc' = [pc EXCEPT ![c] = "threw"]
    /\ elapsed' = [elapsed EXCEPT ![c] = 0]
    /\ UNCHANGED <<browser, launched, openPages, usedHandles, events, closed>>
    /\ UNCHANGED <<extractVars, analyzeVars, storeVars, applyVars, requestVars>>

ScrapeNext ==
    \E c \in Calls :
        \/ Invoke(c)
        \/ LaunchResolves(c)
        \/ AwaitResolves(c)
        \/ AwaitRejects(c)
        \/ NavigationCompletes(c)
        \/ NavigationFails(c)
        \/ Tick(c)
        \/ NavigationTimesOut(c)

ScrapeSpec == ScrapeInit /\ [][ScrapeNext]_vars

\* The event loop delivers every settled promise and every due timer.  The
\* browser settles every request other than a navigation; nothing obliges
\* a page to answer a navigation, successfully or not.
ScrapeFairness ==
    \A c \in Calls :
        /\ WF_vars(Invoke(c))
        /\ WF_vars(LaunchResolves(c) \/ AwaitResolves(c) \/ AwaitRejects(c))
        /\ WF_vars(Tick(c) \/ NavigationTimesOut(c))

ScrapeLiveSpec == ScrapeSpec /\ ScrapeFairness

\* close(): with a browser, await this.browser.close(); this.browser keeps
\* the handle.  Requests of pages already open on the closed browser may
\* still be answered here, which only adds behaviours.
Close ==
    /\ browser # 0
    /\ closed' = closed \cup {browser}
    /\ UNCHANGED <<browser, launched, openPages, pc, elapsed, usedHandles,
                   failedAt, events>>
    /\ UNCHANGED <<extractVars, analyzeVars, storeVars, applyVars, requestVars>>

\* the service with its owner calling close() between acquisitions
ScrapeCloseSpec == ScrapeInit /\ [][ScrapeNext \/ Close]_vars

-----------------------------------------------------------------------------
(***************************************************************************)
(* StoreBuilderService: catalog and template synthesis.                    *)
(*                                                                         *)
(* A JavaScript object is a record whose domain is the set of properties   *)
(* it has; undefined is the record Undefined.  Reading a property of       *)
(* undefined is a TypeError.                                               *)
(***************************************************************************)
Undefined == [undefined |-> TRUE]

IsUndefined(o) == "undefined" \in DOMAIN o

Has(o, k) == ~IsUndefined(o) /\ k \in DOMAIN o

\* this.templates after loadTemplates
TemplateCatalog ==
    [modern |->
        [id |-> "modern", name |-> "Modern Store",
         description |-> "Clean and modern e-commerce template",
         preview |-> "/templates/modern/preview.jpg",
         features |-> <<"Responsive", "SEO Optimized", "Fast Loading">>,
         structure |->
            [header |-> [type |-> "sticky",
                         components |-> <<"logo", "navigation", "search", "cart">>],
             hero |-> [type |-> "slider", height |-> "600px"],
             sections |-> <<"featured-products", "categories", "testimonials",
                            "newsletter">>,
             footer |-> [columns |-> 4,
                         components |-> <<"about", "links", "contact", "social">>]]],
     minimal |->
        [id |-> "minimal", name |-> "Minimal Store",
         description |-> "Simple and elegant design",
         preview |-> "/templates/minimal/preview.jpg",
         features |-> <<"Minimalist", "Typography Focus", "White Space">>,
         structure |->
            [header |-> [type |-> "simple",
                         components |-> <<"logo", "navigation", "cart">>],
             sections |-> <<"products-grid", "about", "contact">>,
             footer |-> [columns |-> 2,
                         components |-> <<"copyright", "social">>]]]]

\* A plausible slip: || in place of &&.
selectBaseTemplateEither(a) ==
    IF a.layout.structure.header \/ a.layout.structure.footer
    THEN "modern" ELSE "minimal"

\* requires analysis.layout.structure
selectBaseTemplate(a) ==
    IF a.layout.structure.header /\ a.layout.structure.footer
    THEN "modern" ELSE "minimal"

\* A plausible slip: the navigation block placed before the product block.
selectComponentsNavigationFirst(a) ==
    (IF a.layout.structure.navigation
     THEN <<[type |-> "navigation", style |-> "horizontal",
             position |-> "header"]>>
     ELSE <<>>)
    \o (IF Has(a, "products") /\ ~a.products.isNull /\ a.products.count > 0
        THEN <<[type |-> "product-grid", columns |-> 4,
                showPrice |-> a.products.hasPrices,
                showImage |-> a.products.hasImages]>>
        ELSE <<>>)
    \o <<[type |-> "search", position |-> "header", style |-> "inline"],
         [type |-> "cart", position |-> "header", style |-> "icon"]>>

\* analysis.products is falsy when missing or null
selectComponents(a) ==
    (IF Has(a, "products") /\ ~a.products.isNull /\ a.products.count > 0
     THEN <<[type |-> "product-grid", columns |-> 4,
             showPrice |-> a.products.hasPrices,
             showImage |-> a.products.hasImages]>>
     ELSE <<>>)
    \o (IF a.layout.structure.navigation
        THEN <<[type |-> "navigation", style |-> "horizontal",
                position |-> "header"]>>
        ELSE <<>>)
    \o <<[type |-> "search", position |-> "header", style |-> "inline"],
         [type |-> "cart", position |-> "header", style |-> "icon"]>>

\* what a template literal prints for a property of a font entry
Printed(font, k) == IF k \in DOMAIN font THEN font[k] ELSE "undefined"

\* the values substituted into the :root block; the rule blocks are fixed
generateCSS(a) ==
    [colorPrimary |-> a.colors.primary,
     colorSecondary |-> a.colors.secondary,
     colorAccent |-> a.colors.accent,
     fontHeading |-> <<Printed(a.typography.heading, "family"),
                       Printed(a.typography.heading, "fallback")>>,
     fontBody |-> <<Printed(a.typography.body, "family"),
                    Printed(a.typography.body, "fallback")>>]

\* the fixed skeleton: its placeholder tokens in order, left unresolved
generateHTML(a) ==
    <<"{{storeName}}", "{{storeDescription}}", "{{storeName}}",
      "{{#navigation}}", "{{url}}", "{{label}}", "{{/navigation}}",
      "{{storeName}}", "{{heroText}}",
      "{{#products}}", "{{image}}", "{{name}}", "{{name}}", "{{price}}",
      "{{/products}}", "{{aboutText}}",
      "{{#footerLinks}}", "{{url}}", "{{label}}", "{{/footerLinks}}",
      "{{contactInfo}}", "{{storeName}}">>

\* the property reads of generateTemplate that throw a TypeError
TemplateSynthesisThrows(a) ==
    \/ IsUndefined(a)
    \/ ~Has(a, "layout") \/ ~Has(a.layout, "structure")
    \/ ~Has(a, "colors")
    \/ ~Has(a, "typography")
    \/ ~Has(a.typography, "heading") \/ ~Has(a.typography, "body")

generateTemplate(a) ==
    IF TemplateSynthesisThrows(a)
    THEN [threw |-> TRUE, value |-> Undefined]
    ELSE [threw |-> FALSE,
          value |-> [id |-> "custom", name |-> "Custom Generated Template",
                     baseTemplate |-> selectBaseTemplate(a),
                     customizations |-> [colors |-> a.colors,
                                         typography |-> a.typography,
                                         layout |-> a.layout,
                                         components |-> selectComponents(a)],
                     css |-> generateCSS(a),
                     html |-> generateHTML(a)]]

-----------------------------------------------------------------------------
(***************************************************************************)
(* StoreBuilderService.createStore and updateStoreDesign, the store        *)
(* operations of StoreController, and AIController.generateStore.          *)
(***************************************************************************)
MaxStores == 1          \* store records the collection may hold

UpperCase == <<"A", "B", "C", "D", "E", "F", "G", "H", "I", "J", "K", "L", "M",
               "N", "O", "P", "Q", "R", "S", "T", "U", "V", "W", "X", "Y", "Z">>

LowerCase == <<"a", "b", "c", "d", "e", "f", "g", "h", "i", "j", "k", "l", "m",
               "n", "o", "p", "q", "r", "s", "t", "u", "v", "w", "x", "y", "z">>

\* String.prototype.toLowerCase, character by character
ToLowerCase(str) ==
    [i \in 1..Len(str) |->
        IF \E k \in 1..26 : UpperCase[k] = str[i]
        THEN LowerCase[CHOOSE k \in 1..26 : UpperCase[k] = str[i]]
        ELSE str[i]]

\* str.replace(/[^a-z0-9]/g, '')
RECURSIVE StripNonAlnum(_)
StripNonAlnum(str) ==
    IF Len(str) = 0 THEN <<>>
    ELSE IF IsDigit(str[1]) \/ \E k \in 1..26 : LowerCase[k] = str[1]
         THEN <<str[1]>> \o StripNonAlnum(Tail(str))
         ELSE StripNonAlnum(Tail(str))

DefaultSubdomain(name) == StripNonAlnum(ToLowerCase(name))

\* o.k || otherwise
PropOr(o, k, otherwise) == IF Has(o, k) THEN o[k] ELSE otherwise

\* the first TypeError of the Store literal, "" when it evaluates
StoreLiteralError(template, customizations, storeInfo) ==
    IF IsUndefined(storeInfo) THEN "storeInfo.name"
    ELSE IF ~Has(storeInfo, "subdomain") /\ ~Has(storeInfo, "name")
    THEN "storeInfo.name.toLowerCase"
    ELSE IF IsUndefined(customizations) THEN "customizations.colors"
    ELSE IF ~Has(customizations, "colors") /\ ~Has(template, "customizations")
    THEN "template.customizations.colors"
    ELSE IF ~Has(customizations, "fonts") /\ ~Has(template, "customizations")
    THEN "template.customizations.typography"
    ELSE IF ~Has(template, "customizations")
    THEN "template.customizations.components"
    ELSE ""

\* A plausible slip: the operands of || exchanged, the values of the
\* template taken first.
StoreLiteralTemplateFirst(userId, template, customizations, storeInfo) ==
    [userId |-> userId,
     name |-> PropOr(storeInfo, "name", <<>>),
     subdomain |-> IF Has(storeInfo, "subdomain") THEN storeInfo.subdomain
                   ELSE DefaultSubdomain(storeInfo.name),
     template |->
        [analyzedData |-> customizations,
         customizations |->
            [colors |-> IF Has(template.customizations, "colors")
                        THEN template.customizations.colors
                        ELSE customizations.colors,
             fonts |-> IF Has(template.customizations, "typography")
                       THEN template.customizations.typography
                       ELSE customizations.fonts]],
     design |-> [layout |-> IF Has(template, "structure")
                               /\ Has(template.structure, "layout")
                            THEN template.structure.layout ELSE "single-column",
                 theme |-> PropOr(customizations, "theme", "light"),
                 components |-> template.customizations.components],
     settings |-> [language |-> PropOr(storeInfo, "language", "en"),
                   currency |-> PropOr(storeInfo, "currency", "USD"),
                   timezone |-> PropOr(storeInfo, "timezone", "UTC")],
     status |-> "draft"]

\* the document passed to new Store(...)
StoreLiteral(userId, template, customizations, storeInfo) ==
    [userId |-> userId,
     name |-> PropOr(storeInfo, "name", <<>>),
     subdomain |-> IF Has(storeInfo, "subdomain") THEN storeInfo.subdomain
                   ELSE DefaultSubdomain(storeInfo.name),
     template |->
        [analyzedData |-> customizations,
         customizations |->
            [colors |-> IF Has(customizations, "colors") THEN customizations.colors
                        ELSE template.customizations.colors,
             fonts |-> IF Has(customizations, "fonts") THEN customizations.fonts
                       ELSE template.customizations.typography]],
     design |-> [layout |-> IF Has(template, "structure")
                               /\ Has(template.structure, "layout")
                            THEN template.structure.layout ELSE "single-column",
                 theme |-> PropOr(customizations, "theme", "light"),
                 components |-> template.customizations.components],
     settings |-> [language |-> PropOr(storeInfo, "language", "en"),
                   currency |-> PropOr(storeInfo, "currency", "USD"),
                   timezone |-> PropOr(storeInfo, "timezone", "UTC")],
     status |-> "draft"]

\* A plausible slip: the two awaits in the other order, the files generated
\* before the record is saved.
createStoreFilesBeforeSave(userId, templateId, customizations, storeInfo, save, files) ==
    LET found == templateId \in DOMAIN TemplateCatalog
        generated == generateTemplate(customizations)
        template == IF found THEN TemplateCatalog[templateId] ELSE generated.value
        literalError == StoreLiteralError(template, customizations, storeInfo)
        none == [threw |-> TRUE, saved |-> FALSE, filesRun |-> FALSE,
                 adHoc |-> ~found, store |-> Undefined]
    IN  IF ~found /\ generated.threw
        THEN none @@ [error |-> "TypeError: generateTemplate"]
        ELSE IF literalError # ""
        THEN none @@ [error |-> "TypeError: " \o literalError]
        ELSE IF files = "fail"
        THEN [none EXCEPT !.filesRun = TRUE] @@ [error |-> "generateStoreFiles"]
        ELSE IF save = "fail" \/ ~Has(storeInfo, "name")
        THEN [none EXCEPT !.filesRun = TRUE] @@ [error |-> "PersistenceError"]
        ELSE [threw |-> FALSE, saved |-> TRUE, filesRun |-> TRUE,
              adHoc |-> ~found, error |-> "",
              store |-> StoreLiteral(userId, template, customizations, storeInfo)]

\* A plausible slip: an empty draft saved first and filled in afterwards,
\* so that a record exists when the Store literal throws.
createStoreDraftFirst(userId, templateId, customizations, storeInfo, save, files) ==
    LET found == templateId \in DOMAIN TemplateCatalog
        generated == generateTemplate(customizations)
        template == IF found THEN TemplateCatalog[templateId] ELSE generated.value
        literalError == StoreLiteralError(template, customizations, storeInfo)
        none == [threw |-> TRUE, saved |-> FALSE, filesRun |-> FALSE,
                 adHoc |-> ~found, store |-> Undefined]
        draft == [userId |-> userId, name |-> <<>>, subdomain |-> <<>>,
                  template |-> [analyzedData |-> Undefined,
                                customizations |-> Undefined],
                  design |-> Undefined, settings |-> Undefined,
                  status |-> "draft"]
    IN  IF ~found /\ generated.threw
        THEN none @@ [error |-> "TypeError: generateTemplate"]
        ELSE IF save = "fail"
        THEN none @@ [error |-> "PersistenceError"]
        ELSE IF literalError # ""
        THEN [none EXCEPT !.saved = TRUE, !.store = draft]
                @@ [error |-> "TypeError: " \o literalError]
        ELSE IF ~Has(storeInfo, "name")
        THEN none @@ [error |-> "PersistenceError"]
        ELSE LET store == StoreLiteral(userId, template, customizations, storeInfo)
             IN  IF files = "fail"
                 THEN [threw |-> TRUE, saved |-> TRUE, filesRun |-> TRUE,
                       adHoc |-> ~found, store |-> store,
                       error |-> "generateStoreFiles"]
                 ELSE [threw |-> FALSE, saved |-> TRUE, filesRun |-> TRUE,
                       adHoc |-> ~found, store |-> store, error |-> ""]

\* The outcome of createStore.  save and files are what the storage
\* collaborator and the file generation do when they are reached: "ok" or
\* "fail".  name is required by the Store schema, so save rejects without
\* it.  saved: store.save() resolved; filesRun: generateStoreFiles was
\* called.  Every exception reaches the catch block, which rethrows.
createStore(userId, templateId, customizations, storeInfo, save, files) ==
    LET found == templateId \in DOMAIN TemplateCatalog
        generated == generateTemplate(customizations)
        template == IF found THEN TemplateCatalog[templateId] ELSE generated.value
        literalError == StoreLiteralError(template, customizations, storeInfo)
        none == [threw |-> TRUE, saved |-> FALSE, filesRun |-> FALSE,
                 adHoc |-> ~found, store |-> Undefined]
    IN  IF ~found /\ generated.threw
        THEN [none EXCEPT !.threw = TRUE] @@ [error |-> "TypeError: generateTemplate"]
        ELSE IF literalError # ""
        THEN none @@ [error |-> "TypeError: " \o literalError]
        ELSE IF save = "fail" \/ ~Has(storeInfo, "name")
        THEN none @@ [error |-> "PersistenceError"]
        ELSE LET store == StoreLiteral(userId, template, customizations, storeInfo)
             IN  IF files = "fail"
                 THEN [threw |-> TRUE, saved |-> TRUE, filesRun |-> TRUE,
                       adHoc |-> ~found, store |-> store,
                       error |-> "generateStoreFiles"]
                 ELSE [threw |-> FALSE, saved |-> TRUE, filesRun |-> TRUE,
                       adHoc |-> ~found, store |-> store, error |-> ""]

\* A plausible slip: updateStoreDesign passing updates as the update
\* document itself, so that a status among them is applied to the store.
updateStoreDesignTopLevel(store, updates) ==
    IF "status" \in DOMAIN updates
    THEN [store EXCEPT !.status = updates.status]
    ELSE store

\* { $set: { 'template.customizations': updates } }
updateStoreDesign(store, updates) ==
    [store EXCEPT !.template.customizations = updates]

\* findByIdAndUpdate(id, { status: 'published' })
publishStore(store) == [store EXCEPT !.status = "published"]

\* findByIdAndUpdate(id, updates): the paths of updates are set
updateStore(store, updates) ==
    [k \in DOMAIN store |-> IF k \in DOMAIN updates THEN updates[k] ELSE store[k]]

-----------------------------------------------------------------------------
(***************************************************************************)
(* Requests to the store operations.                                       *)
(***************************************************************************)
TemplateIds == {"modern", "minimal", "vintage"}

\* the analysis of a site with header, navigation, footer and one product
SampleAnalysis ==
    analyzeDesign(
        [url |-> "https://shop.example",
         design |-> [colors |-> <<<<"r", "g", "b", "(", "2", "5", "5", ",", " ", "0", ",", " ", "0", ")">>>>,
                     fonts |-> <<<<"C", "o", "n", "s", "o", "l", "a", "s">>>>,
                     layout |-> [hasHeader |-> TRUE, hasNav |-> TRUE,
                                 hasMainContent |-> TRUE, hasFooter |-> TRUE,
                                 headerHeight |-> 80, footerHeight |-> 120]],
         products |-> <<[name |-> "Mug", price |-> "$5", image |-> "/mug.png",
                         link |-> "/mug"]>>],
        [kind |-> "timeout", content |-> <<>>]).value

ExplicitColors == [primary |-> "#112233", secondary |-> "#445566", accent |-> "#778899"]

ExplicitFonts == [heading |-> "Inter", body |-> "Lora"]

CustomizationSamples ==
    {Undefined,
     [colors |-> ExplicitColors, fonts |-> ExplicitFonts],
     [colors |-> SampleAnalysis.colors, typography |-> SampleAnalysis.typography,
      layout |-> SampleAnalysis.layout, products |-> SampleAnalysis.products],
     [colors |-> SampleAnalysis.colors, typography |-> SampleAnalysis.typography,
      layout |-> SampleAnalysis.layout, fonts |-> ExplicitFonts, theme |-> "dark"]}

\* 'My Shop 2'
StoreInfoSamples ==
    {[name |-> <<"M", "y", " ", "S", "h", "o", "p", " ", "2">>],
     [name |-> <<"M", "y", " ", "S", "h", "o", "p", " ", "2">>, subdomain |-> <<"s", "h", "o", "p">>],
     [sourceUrl |-> "https://shop.example"]}

CollaboratorOutcomes == {"ok", "fail"}

DesignUpdateSamples ==
    {[colors |-> ExplicitColors, fonts |-> ExplicitFonts, status |-> "published"]}

StoreUpdateSamples == {[status |-> "maintenance"], [status |-> "draft"]}

StoreInit ==
    /\ stores = <<>>
    /\ lastOp = "none"
    /\ reply = [code |-> 0]
    /\ ScrapeIdle /\ ExtractIdle /\ AnalyzeIdle /\ ApplyIdle /\ RequestIdle

\* AIController.generateStore: createStore, then 200 with the store's id
\* and status, or 500 with the message of what createStore threw
GenerateStore ==
    /\ Len(stores) < MaxStores
    /\ \E templateId \in TemplateIds, customizations \in CustomizationSamples,
       storeInfo \in StoreInfoSamples,
       save \in CollaboratorOutcomes, files \in CollaboratorOutcomes :
        LET r == createStore("user-1", templateId, customizations, storeInfo,
                             save, files)
        IN  /\ stores' = IF r.saved THEN Append(stores, r.store) ELSE stores
            /\ lastOp' = "createStore"
            /\ reply' = [code |-> IF r.threw THEN 500 ELSE 200,
                         threw |-> r.threw, error |-> r.error,
                         saved |-> r.saved, filesRun |-> r.filesRun,
                         adHoc |-> r.adHoc,
                         storeId |-> IF r.saved THEN Len(stores) + 1 ELSE 0,
                         templateId |-> templateId,
                         customizationsGiven |-> ~IsUndefined(customizations),
                         nameGiven |-> Has(storeInfo, "name"),
                         save |-> save, files |-> files]
            /\ UNCHANGED <<scrapeVars, extractVars, analyzeVars, applyVars, requestVars>>

\* StoreBuilderService.updateStoreDesign; generateStoreFiles reads
\* store.subdomain, a TypeError when no store has the id
UpdateStoreDesign ==
    \E id \in 1..MaxStores, updates \in DesignUpdateSamples :
        /\ stores' = IF id <= Len(stores)
                     THEN [stores EXCEPT ![id] = updateStoreDesign(stores[id], updates)]
                     ELSE stores
        /\ lastOp' = "updateStoreDesign"
        /\ reply' = [code |-> IF id <= Len(stores) THEN 200 ELSE 500, storeId |-> id]
        /\ UNCHANGED <<scrapeVars, extractVars, analyzeVars, applyVars, requestVars>>

\* StoreController.publishStore
PublishStore ==
    \E id \in 1..MaxStores :
        /\ stores' = IF id <= Len(stores)
                     THEN [stores EXCEPT ![id] = publishStore(stores[id])]
                     ELSE stores
        /\ lastOp' = "publishStore"
        /\ reply' = [code |-> IF id <= Len(stores) THEN 200 ELSE 404, storeId |-> id]
        /\ UNCHANGED <<scrapeVars, extractVars, analyzeVars, applyVars, requestVars>>

\* StoreController.updateStore
UpdateStore ==
    \E id \in 1..MaxStores, updates \in StoreUpdateSamples :
        /\ stores' = IF id <= Len(stores)
                     THEN [stores EXCEPT ![id] = updateStore(stores[id], updates)]
                     ELSE stores
        /\ lastOp' = "updateStore"
        /\ reply' = [code |-> IF id <= Len(stores) THEN 200 ELSE 404, storeId |-> id]
        /\ UNCHANGED <<scrapeVars, extractVars, analyzeVars, applyVars, requestVars>>

\* AIController.improveDesign: 404 without a store; otherwise
\* getAIRecommendations on { url: store.url, design: store.design,
\* analytics: store.analytics } and 200 with what it returned.  A Store
\* has no url and no analytics: both properties hold undefined.
ImproveDesign ==
    \E id \in 1..MaxStores, outcome \in AIOutcomes :
        /\ reply' =
              IF id > Len(stores) THEN [code |-> 404, storeId |-> id]
              ELSE LET improvements ==
                         getAIRecommendations([url |-> Undefined,
                                               design |-> stores[id].design,
                                               analytics |-> Undefined], outcome)
                   IN  [code |-> 200, storeId |-> id,
                        data |-> improvements.value,
                        requested |-> improvements.requested,
                        outcome |-> outcome]
        /\ lastOp' = "improveDesign"
        /\ UNCHANGED stores
        /\ UNCHANGED <<scrapeVars, extractVars, analyzeVars, applyVars, requestVars>>

StoreNext ==
    \/ GenerateStore
    \/ UpdateStoreDesign
    \/ PublishStore
    \/ UpdateStore
    \/ ImproveDesign

StoreSpec == StoreInit /\ [][StoreNext]_vars

-----------------------------------------------------------------------------
(***************************************************************************)
(* Methods of the services applied to one argument each.                   *)
(***************************************************************************)
\* Number.prototype.toString() for a non-negative integer
RECURSIVE toString10(_)
toString10(n) ==
    IF n < 10 THEN <<HexDigits[n + 1]>>
    ELSE toString10(n \div 10) \o <<HexDigits[(n % 10) + 1]>>

\* the computed style of a colour without alpha: 'rgb(r, g, b)'
RgbString(r, g, b) ==
    <<"r", "g", "b", "(">> \o toString10(r) \o <<",", " ">> \o toString10(g)
        \o <<",", " ">> \o toString10(b) \o <<")">>

\* channel triples in which one channel takes every value of 0..255 and
\* the other two a value with one hex digit or one of the two ends
ChannelTriples ==
    LET Channels == 0..255
        ChannelSamples == {0, 15, 255}
    IN  {<<x, y, z>> : x \in Channels, y \in ChannelSamples, z \in ChannelSamples}
        \cup {<<y, x, z>> : x \in Channels, y \in ChannelSamples, z \in ChannelSamples}
        \cup {<<y, z, x>> : x \in Channels, y \in ChannelSamples, z \in ChannelSamples}

\* '#FFAA00', '#FFF', 'RGB(1, 2, 3)': upper-case forms of collected colours
UpperCaseColorStrings ==
    {<<"#", "F", "F", "A", "A", "0", "0">>,
     <<"#", "F", "F", "F">>,
     <<"R", "G", "B", "(", "1", ",", " ", "2", ",", " ", "3", ")">>}

ColorCalls ==
    {[fn |-> "rgbToHex", arg |-> RgbString(t[1], t[2], t[3]), channels |-> t] :
        t \in ChannelTriples}
    \cup {[fn |-> "rgbToHex", arg |-> c, channels |-> <<>>] :
            c \in ColorStrings \cup UpperCaseColorStrings}

\* rgbToHex(color), hexToRgb of what it gave, and what analyzeColors stores
\* for a list that holds only this colour
ConvertColor ==
    /\ call.fn = "rgbToHex"
    /\ result = Pending
    /\ result' = [hex |-> rgbToHex(call.arg),
                  rgb |-> hexToRgb(rgbToHex(call.arg)),
                  again |-> rgbToHex(rgbToHex(call.arg)),
                  stored |-> analyzeColors(<<call.arg>>)]
    /\ UNCHANGED call
    /\ UNCHANGED <<scrapeVars, extractVars, analyzeVars, storeVars, requestVars>>

\* 'Times New Roman', 'Georgia', 'EB Garamond', 'Noto Serif', 'Courier New', 'Monaco', 'Consolas', 'Monospace',
\* 'Monospace Serif', 'Courier Times', 'Arial', 'Roboto', 'sans-serif', 'times', 'monospace', ''
FontNames ==
    {<<"T", "i", "m", "e", "s", " ", "N", "e", "w", " ", "R", "o", "m", "a", "n">>,
     <<"G", "e", "o", "r", "g", "i", "a">>,
     <<"E", "B", " ", "G", "a", "r", "a", "m", "o", "n", "d">>,
     <<"N", "o", "t", "o", " ", "S", "e", "r", "i", "f">>,
     <<"C", "o", "u", "r", "i", "e", "r", " ", "N", "e", "w">>,
     <<"M", "o", "n", "a", "c", "o">>,
     <<"C", "o", "n", "s", "o", "l", "a", "s">>,
     <<"M", "o", "n", "o", "s", "p", "a", "c", "e">>,
     <<"M", "o", "n", "o", "s", "p", "a", "c", "e", " ", "S", "e", "r", "i", "f">>,
     <<"C", "o", "u", "r", "i", "e", "r", " ", "T", "i", "m", "e", "s">>,
     <<"A", "r", "i", "a", "l">>,
     <<"R", "o", "b", "o", "t", "o">>,
     <<"s", "a", "n", "s", "-", "s", "e", "r", "i", "f">>,
     <<"t", "i", "m", "e", "s">>,
     <<"m", "o", "n", "o", "s", "p", "a", "c", "e">>,
     <<>>}

\* categorizeFontFamily(font) and getFontFallback(font)
ClassifyFont ==
    /\ call.fn = "categorizeFontFamily"
    /\ result = Pending
    /\ result' = [category |-> categorizeFontFamily(call.arg),
                  fallback |-> getFontFallback(call.arg)]
    /\ UNCHANGED call
    /\ UNCHANGED <<scrapeVars, extractVars, analyzeVars, storeVars, requestVars>>

\* layout objects of the page evaluation: every combination of the flags
LayoutFlags ==
    {[hasHeader |-> h, hasNav |-> n, hasMainContent |-> m, hasFooter |-> f,
      headerHeight |-> IF h THEN 80 ELSE 0,
      footerHeight |-> IF f THEN 120 ELSE 0] :
        h \in BOOLEAN, n \in BOOLEAN, m \in BOOLEAN, f \in BOOLEAN}

\* candidate lists: none, with and without price and image
CandidateLists ==
    LET mug == [name |-> "Mug", price |-> "$5", image |-> "/mug.png", link |-> "/mug"]
        blank == [name |-> "", price |-> "", image |-> "", link |-> ""]
        priced == [name |-> "Cup", price |-> "$3", image |-> "", link |-> ""]
        pictured == [name |-> "Pot", price |-> "", image |-> "/pot.png", link |-> ""]
    IN  {<<>>, <<mug>>, <<blank>>, <<priced>>, <<pictured>>, <<blank, mug>>,
         <<priced, pictured>>}

\* the analysis that analyzeDesign builds from a layout and a candidate list
TemplateCalls ==
    {[fn |-> "generateTemplate",
      arg |-> [colors |-> analyzeColors(<<>>).value,
               typography |-> analyzeTypography(<<>>),
               layout |-> analyzeLayout(l),
               products |-> analyzeProductStructure(ps)],
      layout |-> l, candidates |-> ps] :
        l \in LayoutFlags, ps \in CandidateLists}

\* generateTemplate(analysis)
SynthesizeTemplate ==
    /\ call.fn = "generateTemplate"
    /\ result = Pending
    /\ result' = generateTemplate(call.arg)
    /\ UNCHANGED call
    /\ UNCHANGED <<scrapeVars, extractVars, analyzeVars, storeVars, requestVars>>

\* scraped sites with at most one colour
SmallSites == {s \in ScrapedSites : Len(s.design.colors) <= 1}

\* two requests for one scraped site, the completion service behaving in
\* one of its ways for each
RepeatCalls ==
    {[fn |-> "analyzeDesign", arg |-> sd, outcomes |-> <<o1, o2>>] :
        sd \in SmallSites, o1 \in AIOutcomes, o2 \in AIOutcomes}

\* analyzeDesign(scrapedData), twice
AnalyzeTwice ==
    /\ call.fn = "analyzeDesign"
    /\ result = Pending
    /\ result' = <<analyzeDesign(call.arg, call.outcomes[1]),
                   analyzeDesign(call.arg, call.outcomes[2])>>
    /\ UNCHANGED call
    /\ UNCHANGED <<scrapeVars, extractVars, analyzeVars, storeVars, requestVars>>

MaxPalette == 4         \* colours in a list handed to analyzeColors
MaxFontList == 3        \* fonts in a list handed to analyzeTypography

\* 'rgb(255, 255, 255)', 'rgba(0, 0, 0, 0.5)', 'rgb(255, 0, 0)', '#ffaa00',
\* '#fff': a background, a text and two accent colours by brightness, and
\* one that categorizeColor cannot read
PaletteColors ==
    {RgbString(255, 255, 255),
     <<"r", "g", "b", "a", "(", "0", ",", " ", "0", ",", " ", "0", ",", " ", "0", ".", "5", ")">>,
     RgbString(255, 0, 0),
     <<"#", "f", "f", "a", "a", "0", "0">>,
     <<"#", "f", "f", "f">>}

\* analyzeColors(colors)
AnalyzeColorList ==
    /\ call.fn = "analyzeColors"
    /\ result = Pending
    /\ result' = analyzeColors(call.arg)
    /\ UNCHANGED call
    /\ UNCHANGED <<scrapeVars, extractVars, analyzeVars, storeVars, requestVars>>

\* analyzeTypography(fonts)
AnalyzeFontList ==
    /\ call.fn = "analyzeTypography"
    /\ result = Pending
    /\ result' = analyzeTypography(call.arg)
    /\ UNCHANGED call
    /\ UNCHANGED <<scrapeVars, extractVars, analyzeVars, storeVars, requestVars>>

ApplyInit ==
    /\ call \in ColorCalls
                \cup {[fn |-> "categorizeFontFamily", arg |-> f] : f \in FontNames}
                \cup TemplateCalls \cup RepeatCalls
                \cup {[fn |-> "analyzeColors", arg |-> l] :
                        l \in SeqsUpTo(PaletteColors, MaxPalette)}
                \cup {[fn |-> "analyzeTypography", arg |-> l] :
                        l \in SeqsUpTo(FontStrings, MaxFontList)}
    /\ result = Pending
    /\ ScrapeIdle /\ ExtractIdle /\ AnalyzeIdle /\ StoreIdle /\ RequestIdle

ApplyNext ==
    \/ ConvertColor
    \/ ClassifyFont
    \/ SynthesizeTemplate
    \/ AnalyzeTwice
    \/ AnalyzeColorList
    \/ AnalyzeFontList

ApplySpec == ApplyInit /\ [][ApplyNext]_vars

-----------------------------------------------------------------------------
(***************************************************************************)
(* AIController.analyzeWebsite: scrape, analyse, synthesise, respond.      *)
(*                                                                         *)
(* request.acquisition is what scrapeWebsite does for the request: it      *)
(* returns scrapedData, or it throws the error of the await that rejected. *)
(* request.steps lists the service methods that ran, in order.             *)
(***************************************************************************)
\* what scrapeWebsite can end with: see Finished and failedAt
AcquisitionOutcomes ==
    {[kind |-> "returned", message |-> ""],
     [kind |-> "threw", message |-> "net::ERR_NAME_NOT_RESOLVED"],
     [kind |-> "threw", message |-> "Navigation timeout of 30000 ms exceeded"]}

\* A plausible slip: a fixed text in place of error.message.
errorResponseGeneric(message) ==
    [code |-> 500, error |-> "Failed to analyze website",
     message |-> "Internal server error"]

\* res.status(500).json({ error, message: error.message })
errorResponse(message) ==
    [code |-> 500, error |-> "Failed to analyze website", message |-> message]

RequestInit ==
    /\ request \in {[pc |-> "received", urlGiven |-> u, acquisition |-> a,
                      steps |-> <<>>, response |-> [code |-> 0]] :
                        u \in BOOLEAN, a \in AcquisitionOutcomes}
    /\ scrapedData \in SmallSites
    /\ aiOutcome \in AIOutcomes
    /\ analysis = [state |-> "pending"]
    /\ completion = CompletionIdle
    /\ ScrapeIdle /\ ExtractIdle /\ StoreIdle /\ ApplyIdle

\* if (!url) return res.status(400)...
RejectMissingUrl ==
    /\ request.pc = "received"
    /\ ~request.urlGiven
    /\ request' = [request EXCEPT !.pc = "responded",
                       !.response = [code |-> 400, error |-> "URL is required"]]
    /\ UNCHANGED <<scrapeVars, extractVars, analyzeVars, storeVars, applyVars>>

\* Step 1: await aiScraperService.scrapeWebsite(url)
ScrapeStep ==
    /\ request.pc = "received"
    /\ request.urlGiven
    /\ request' =
          IF request.acquisition.kind = "threw"
          THEN [request EXCEPT !.pc = "responded",
                    !.steps = Append(@, "scrapeWebsite"),
                    !.response = errorResponse(request.acquisition.message)]
          ELSE [request EXCEPT !.pc = "scraped",
                    !.steps = Append(@, "scrapeWebsite")]
    /\ UNCHANGED <<scrapeVars, extractVars, analyzeVars, storeVars, applyVars>>

\* Step 2: await designAnalyzerService.analyzeDesign(scrapedData)
AnalyzeStep ==
    /\ request.pc = "scraped"
    /\ analysis' = analyzeDesign(scrapedData, aiOutcome)
    /\ request' =
          [request EXCEPT
              !.pc = IF analysis'.state = "threw" THEN "responded" ELSE "analyzed",
              !.steps = @ \o <<"analyzeDesign">>
                          \o IF analysis'.aiCall.requested
                             THEN <<"chat.completions.create">> ELSE <<>>,
              !.response = IF analysis'.state = "threw"
                           THEN errorResponse(analysis'.error) ELSE @]
    /\ UNCHANGED <<scrapedData, aiOutcome, completion>>
    /\ UNCHANGED <<scrapeVars, extractVars, storeVars, applyVars>>

\* Step 3: await storeBuilderService.generateTemplate(analysis); res.json
SynthesizeStep ==
    /\ request.pc = "analyzed"
    /\ request' =
          [request EXCEPT
              !.pc = "responded",
              !.steps = Append(@, "generateTemplate"),
              !.response =
                  IF generateTemplate(analysis.value).threw
                  THEN errorResponse("TypeError")
                  ELSE [code |-> 200, success |-> TRUE,
                        data |-> [productsFound |-> Len(scrapedData.products),
                                  analysis |-> analysis.value,
                                  template |-> generateTemplate(analysis.value).value]]]
    /\ UNCHANGED <<scrapeVars, extractVars, analyzeVars, storeVars, applyVars>>

RequestNext ==
    \/ RejectMissingUrl
    \/ ScrapeStep
    \/ AnalyzeStep
    \/ SynthesizeStep

RequestSpec == RequestInit /\ [][RequestNext]_vars

-----------------------------------------------------------------------------
(***************************************************************************)
(* Properties.                                                             *)
(***************************************************************************)
\* '#' followed by exactly six characters of 0-9a-f
IsLowerHex6(h) ==
    /\ Len(h) = 7
    /\ h[1] = "#"
    /\ \A i \in 2..7 : \E k \in 1..16 : HexDigits[k] = h[i]

\* C1 (AnalyzeSpec): whenever the completion request was issued and it
\* rejected (network, timeout) or answered with content that is not JSON,
\* getAIRecommendations returned the fixed four-category fallback object
\* without throwing, and analyzeDesign returned with that object as its
\* aiRecommendations.
AIFailureYieldsFallback ==
    (analysis.state # "pending" /\ analysis.aiCall.requested
        /\ AICallFails(aiOutcome))
    => /\ ~analysis.aiCall.threw
       /\ analysis.aiCall.value =
            [improvements |-> <<"Modern design patterns", "Better color contrast",
                                "Clear CTAs">>,
             ux |-> <<"Simplified navigation", "Faster load times",
                      "Better mobile experience">>,
             mobile |-> <<"Touch-friendly buttons", "Responsive images",
                          "Optimized fonts">>,
             conversion |-> <<"Clear value proposition", "Trust badges",
                              "Simplified checkout">>]
       /\ analysis.state = "returned"
       /\ analysis.value.aiRecommendations = analysis.aiCall.value

\* C1 witness: an analysis that returned although the completion content
\* was not JSON.
AIFailureYieldsFallbackWitness ==
    /\ analysis.state = "returned"
    /\ aiOutcome.kind = "response"
    /\ ~JSONParse(aiOutcome.content).ok
    /\ analysis.aiCall.requested
    /\ analysis.value.aiRecommendations = FallbackRecommendations

\* C2 (AnalyzeSpec), as claimed: analyzeDesign never throws, whatever the
\* colour and font strings of the scraped site are.
AnalyzeDesignNeverFails ==
    analysis.state # "threw"

\* C3 (ScrapeSpec), as claimed: once a scrapeWebsite call has returned or
\* thrown, the page it opened is closed.
PageClosedAfterCall ==
    \A c \in Calls : pc[c] \in Finished => c \notin openPages

\* C4 (ScrapeSpec), as claimed: at most one browser is ever launched and
\* every invocation opens its page on the same browser handle.
SingleBrowserLaunch ==
    /\ launched <= 1
    /\ \A g, h \in usedHandles : g = h

\* C5 (StoreSpec), as claimed: createStore with a catalog templateId, a
\* storeInfo with a name and a customizations object, with storage and
\* file generation working, takes the template from the catalog, persists
\* the record and returns it without throwing.
CatalogTemplateCreatesStore ==
    (lastOp = "createStore" /\ reply.templateId \in {"modern", "minimal"}
        /\ reply.nameGiven /\ reply.customizationsGiven
        /\ reply.save = "ok" /\ reply.files = "ok")
    => (~reply.threw /\ ~reply.adHoc /\ reply.saved /\ reply.code = 200)

\* C6 (StoreSpec), as claimed: when generating the store files fails after
\* the record was persisted, createStore still returns the store and the
\* generate-store request succeeds; the record stays persisted.
FileGenerationFailureNotSurfaced ==
    (lastOp = "createStore" /\ reply.saved /\ reply.filesRun
        /\ reply.files = "fail")
    => (~reply.threw /\ reply.code = 200 /\ reply.storeId \in 1..Len(stores))

\* C7 (StoreSpec): a record created by createStore has status 'draft', and
\* the status of an existing record changes only in a step of publishStore
\* or updateStore, never in one of createStore or updateStoreDesign.
StatusChangedOnlyByManagement ==
    [][\A id \in 1..Len(stores') :
          /\ (id > Len(stores) /\ lastOp' = "createStore")
                => stores'[id].status = "draft"
          /\ (id <= Len(stores) /\ stores'[id].status # stores[id].status)
                => lastOp' \in {"publishStore", "updateStore"}]_vars

\* C7 witness: updateStoreDesign has rewritten the customizations of a store
\* that store management had moved to 'maintenance', and the status stayed.
DesignUpdateKeepsStatusWitness ==
    /\ lastOp = "updateStoreDesign"
    /\ \E id \in 1..Len(stores) :
          /\ stores[id].status = "maintenance"
          /\ stores[id].template.customizations \in DesignUpdateSamples

\* positions of the elements the candidates were built from
CandidateElements == [k \in 1..Len(products) |-> products[k].el]

\* C8 (ExtractSpec), as claimed: on a page with elements matching the
\* microdata pattern and elements matching .product, the candidates are
\* those of the microdata pattern.
MicrodataPatternWins ==
    (extracted /\ Select(dom, "[itemtype*=\"Product\"]", 1) # <<>>
        /\ Select(dom, ".product", 1) # <<>>)
    => CandidateElements = Take(Select(dom, "[itemtype*=\"Product\"]", 1), 10)

\* C8, amended (ExtractSpec): the patterns are tried in the order .product,
\* .product-item, .product-card, itemtype/Product microdata, [data-product];
\* the candidates are the first ten matches of the first pattern in that
\* order that matches, so on a page with microdata and .product elements
\* they are those of the .product pattern.
ProductClassPatternWins ==
    LET order == <<".product", ".product-item", ".product-card",
                   "[itemtype*=\"Product\"]", "[data-product]">>
    IN  extracted =>
          \A k \in 1..5 :
             ((\A j \in 1..(k - 1) : Select(dom, order[j], 1) = <<>>)
                 /\ Select(dom, order[k], 1) # <<>>)
             => CandidateElements = Take(Select(dom, order[k], 1), 10)

\* C8 witness: a page with a microdata-only element and a .product element,
\* whose candidates are the .product elements only.
ProductClassPatternWinsWitness ==
    /\ extracted
    /\ \E i \in 1..Len(dom) : dom[i].sels = {"[itemtype*=\"Product\"]"}
    /\ \E i \in 1..Len(dom) : ".product" \in dom[i].sels
    /\ products # <<>>
    /\ \A k \in 1..Len(products) : ".product" \in dom[products[k].el].sels

\* C9 (ExtractSpec): the candidates come from exactly one pattern, the first
\* of productSelectors with a match: each candidate's element matches it, no
\* earlier pattern matches anything, the candidates are its matches in
\* document order without gaps, at most 10 of them, all of them when there
\* are fewer; when no pattern matches the result is the empty list.
OnePatternAtMostTen ==
    extracted =>
       /\ Len(products) <= 10
       /\ (products = <<>>) <=>
             (\A i \in 1..Len(dom), k \in 1..Len(productSelectors) :
                 productSelectors[k] \notin dom[i].sels)
       /\ products # <<>> =>
             \E k \in 1..Len(productSelectors) :
                /\ \A j \in 1..(k - 1), i \in 1..Len(dom) :
                      productSelectors[j] \notin dom[i].sels
                /\ \A n \in 1..Len(products) :
                      productSelectors[k] \in dom[products[n].el].sels
                /\ \A n \in 1..(Len(products) - 1) :
                      products[n].el < products[n + 1].el
                /\ \A i \in 1..products[Len(products)].el :
                      productSelectors[k] \in dom[i].sels
                         => \E n \in 1..Len(products) : products[n].el = i
                /\ Len(products) < 10 =>
                      \A i \in 1..Len(dom) :
                         productSelectors[k] \in dom[i].sels
                            => \E n \in 1..Len(products) : products[n].el = i

\* C9 witness: ten candidates from a page on which the pattern used has more
\* than ten matches and a later pattern has matches too.
OnePatternAtMostTenWitness ==
    /\ extracted
    /\ Len(products) = 10
    /\ \E k \in 1..(Len(productSelectors) - 1) :
          /\ Len(Select(dom, productSelectors[k], 1)) > 10
          /\ \E j \in (k + 1)..Len(productSelectors), i \in 1..Len(dom) :
                dom[i].sels = {productSelectors[j]}

\* C10 (ScrapeLiveSpec): a pending navigation, desktop or mobile, never
\* lasts longer than 30 seconds, and every scrapeWebsite call that was
\* made eventually returns or throws.
NavigationsBoundedCallsEnd ==
    /\ [](\A c \in Calls : pc[c] \in Navigations => elapsed[c] <= 30000)
    /\ \A c \in Calls : (pc[c] # "idle") ~> (pc[c] \in Finished)

\* C10 witness: a call that threw because its mobile re-load did not
\* complete within the bound.
MobileNavigationTimedOutWitness ==
    \E c \in Calls :
       /\ pc[c] = "threw"
       /\ failedAt[c] = [at |-> "gotoMobile", error |-> "TimeoutError"]

\* C11 (CompletionLiveSpec): the completion request is bounded by the
\* client's timeout and retry count, and when the service never answers,
\* getAIRecommendations eventually returns, without throwing, the fixed
\* fallback object.
UnansweredCompletionYieldsFallback ==
    /\ [](completion.elapsed <= 600000 /\ completion.attempt <= 3)
    /\ (completion.pc = "inFlight" /\ aiOutcome.kind = "timeout")
          ~> (/\ completion.pc = "done"
              /\ ~completion.result.threw
              /\ completion.result.value = FallbackRecommendations)

\* C11 witness: the third attempt timed out against a service that never
\* answers, and the fallback object was returned.
UnansweredCompletionWitness ==
    /\ aiOutcome.kind = "timeout"
    /\ completion.pc = "done"
    /\ completion.attempt = 3
    /\ completion.elapsed = 600000
    /\ completion.result.requested
    /\ completion.result.value = FallbackRecommendations

\* C12 (ApplySpec): for channels r, g, b in 0..255, rgbToHex of
\* 'rgb(r, g, b)' is '#' followed by six lower-case hex digits, and hexToRgb
\* of that string gives back r, g and b.
RgbHexRoundTrip ==
    (call.fn = "rgbToHex" /\ call.channels # <<>> /\ result # Pending)
    => /\ IsLowerHex6(result.hex)
       /\ ~result.rgb.isNull
       /\ <<result.rgb.r, result.rgb.g, result.rgb.b>> = call.channels

\* C12 witness: 'rgb(9, 255, 15)' became '#09ff0f' and came back.
RgbHexRoundTripWitness ==
    /\ call.fn = "rgbToHex"
    /\ call.arg = <<"r", "g", "b", "(", "9", ",", " ", "2", "5", "5", ",", " ",
                    "1", "5", ")">>
    /\ result # Pending
    /\ result.hex = <<"#", "0", "9", "f", "f", "0", "f">>
    /\ result.rgb = [isNull |-> FALSE, r |-> 9, g |-> 255, b |-> 15]

\* C13 (ApplySpec), as claimed: the hex value that analyzeColors stores for
\* a collected colour string is '#' followed by exactly six characters of
\* 0-9a-f, whatever the string is.
StoredHexIsLowerHex6 ==
    (call.fn = "rgbToHex" /\ result # Pending /\ ~result.stored.threw)
    => IsLowerHex6(result.stored.value.all[1].hex)

\* C14 (AnalyzeSpec): for an empty colour list the colours of the analysis
\* are primary '#000000', secondary '#666666' and accent '#0066cc', with
\* no entry in all.
EmptyColorsGiveDefaults ==
    (analysis.state = "returned" /\ scrapedData.design.colors = <<>>)
    => /\ analysis.value.colors.primary = <<"#", "0", "0", "0", "0", "0", "0">>
       /\ analysis.value.colors.secondary = <<"#", "6", "6", "6", "6", "6", "6">>
       /\ analysis.value.colors.accent = <<"#", "0", "0", "6", "6", "c", "c">>
       /\ analysis.value.colors.all = <<>>

\* C14 witness: an analysis that returned for a site without colours.
EmptyColorsGiveDefaultsWitness ==
    /\ analysis.state = "returned"
    /\ scrapedData.design.colors = <<>>
    /\ analysis.value.colors.accent = <<"#", "0", "0", "6", "6", "c", "c">>

\* the name holds one of the words, as a substring and in this spelling
HoldsOneOf(name, words) ==
    \E w \in words : \E i \in 1..Len(name) :
        /\ i + Len(w) - 1 <= Len(name)
        /\ \A j \in 1..Len(w) : name[i + j - 1] = w[j]

\* C15 (ApplySpec): a font name that holds Times, Georgia, Garamond or
\* Serif is 'serif' with fallback 'Georgia, serif'; otherwise one that holds
\* Courier, Monaco, Consolas or Monospace is 'monospace' with fallback
\* 'Courier New, monospace'; every other name is 'sans-serif' with fallback
\* 'Arial, sans-serif'.
FontClassifiedByKeyword ==
    (call.fn = "categorizeFontFamily" /\ result # Pending)
    => LET serif == HoldsOneOf(call.arg, {<<"T", "i", "m", "e", "s">>, <<"G", "e", "o", "r", "g", "i", "a">>, <<"G", "a", "r", "a", "m", "o", "n", "d">>, <<"S", "e", "r", "i", "f">>})
           mono == HoldsOneOf(call.arg, {<<"C", "o", "u", "r", "i", "e", "r">>, <<"M", "o", "n", "a", "c", "o">>, <<"C", "o", "n", "s", "o", "l", "a", "s">>, <<"M", "o", "n", "o", "s", "p", "a", "c", "e">>})
       IN  result = IF serif
                    THEN [category |-> "serif", fallback |-> "Georgia, serif"]
                    ELSE IF mono
                    THEN [category |-> "monospace",
                          fallback |-> "Courier New, monospace"]
                    ELSE [category |-> "sans-serif",
                          fallback |-> "Arial, sans-serif"]

\* C15 witness: 'Monospace Serif', which holds a keyword of both lists,
\* was classified as serif.
FontClassifiedByKeywordWitness ==
    /\ call.fn = "categorizeFontFamily"
    /\ call.arg = <<"M", "o", "n", "o", "s", "p", "a", "c", "e", " ", "S", "e", "r", "i", "f">>
    /\ result = [category |-> "serif", fallback |-> "Georgia, serif"]

\* C16 (ApplySpec): the base template is 'modern' exactly when the page
\* has a header and a footer and 'minimal' otherwise; the navigation and
\* main-content flags and the candidates play no part.
BaseTemplateByHeaderAndFooter ==
    (call.fn = "generateTemplate" /\ result # Pending)
    => /\ ~result.threw
       /\ result.value.baseTemplate =
            IF call.layout.hasHeader /\ call.layout.hasFooter
            THEN "modern" ELSE "minimal"

\* C16 witness: header without footer, with navigation and products, gave
\* 'minimal'.
BaseTemplateByHeaderAndFooterWitness ==
    /\ call.fn = "generateTemplate"
    /\ call.layout.hasHeader /\ ~call.layout.hasFooter /\ call.layout.hasNav
    /\ Len(call.candidates) > 0
    /\ result # Pending
    /\ result.value.baseTemplate = "minimal"

\* C17 (ApplySpec): the component list is product-grid (iff there are
\* candidates; with the flags for prices and images found among them),
\* navigation (iff the page has navigation), search, cart, in this order.
ComponentsInOrder ==
    (call.fn = "generateTemplate" /\ result # Pending)
    => /\ ~result.threw
       /\ result.value.customizations.components =
            (IF Len(call.candidates) > 0
             THEN <<[type |-> "product-grid", columns |-> 4,
                     showPrice |-> \E i \in 1..Len(call.candidates) :
                                      call.candidates[i].price # "",
                     showImage |-> \E i \in 1..Len(call.candidates) :
                                      call.candidates[i].image # ""]>>
             ELSE <<>>)
            \o (IF call.layout.hasNav
                THEN <<[type |-> "navigation", style |-> "horizontal",
                        position |-> "header"]>>
                ELSE <<>>)
            \o <<[type |-> "search", position |-> "header", style |-> "inline"],
                 [type |-> "cart", position |-> "header", style |-> "icon"]>>

\* C17 witness: candidates and no navigation gave exactly product-grid,
\* search, cart.
ComponentsInOrderWitness ==
    /\ call.fn = "generateTemplate"
    /\ ~call.layout.hasNav
    /\ Len(call.candidates) > 0
    /\ result # Pending
    /\ [i \in 1..Len(result.value.customizations.components) |->
            result.value.customizations.components[i].type]
         = <<"product-grid", "search", "cart">>

\* C18 (RequestSpec): for a scraped site without candidate products the
\* analysis of the response has products = null and the component list of
\* the response's template has no product-grid entry.
NoProductsNoProductGrid ==
    (request.pc = "responded" /\ request.response.code = 200
        /\ scrapedData.products = <<>>)
    => /\ request.response.data.analysis.products = [isNull |-> TRUE]
       /\ \A i \in 1..Len(request.response.data.template.customizations.components) :
             request.response.data.template.customizations.components[i].type
                # "product-grid"

\* C18 witness: a 200 response for a site without candidates whose
\* template lists navigation, search and cart.
NoProductsNoProductGridWitness ==
    /\ request.pc = "responded"
    /\ request.response.code = 200
    /\ scrapedData.products = <<>>
    /\ Len(request.response.data.template.customizations.components) = 3

AcquisitionFailureIsReported ==
    (request.pc = "responded" /\ request.urlGiven
        /\ request.acquisition.kind = "threw")
    => /\ request.response.code = 500
       /\ request.response.message = request.acquisition.message
       /\ request.steps = <<"scrapeWebsite">>
       /\ analysis = [state |-> "pending"]

\* C20 witness: a navigation timeout answered with a 500.
AcquisitionFailureIsReportedWitness ==
    /\ request.pc = "responded"
    /\ request.acquisition =
          [kind |-> "threw", message |-> "Navigation timeout of 30000 ms exceeded"]
    /\ request.response.code = 500
    /\ request.steps = <<"scrapeWebsite">>

\* C21 (StoreSpec): when saving the record fails, createStore throws, the
\* request is answered with 500, no record is stored and generateStoreFiles
\* is not called; the error that reaches the caller is the one of the
\* save unless the record could not be built at all; generateStoreFiles
\* runs only after a save that succeeded.
SaveFailureSurfacedBeforeFiles ==
    lastOp = "createStore"
    => /\ reply.filesRun => reply.saved
       /\ reply.save = "fail"
            => /\ reply.threw /\ reply.code = 500
               /\ ~reply.saved /\ ~reply.filesRun /\ reply.storeId = 0
               /\ reply.error \in
                     {"PersistenceError", "TypeError: generateTemplate",
                      "TypeError: storeInfo.name",
                      "TypeError: storeInfo.name.toLowerCase",
                      "TypeError: customizations.colors",
                      "TypeError: template.customizations.colors",
                      "TypeError: template.customizations.typography",
                      "TypeError: template.customizations.components"}
       /\ reply.error = "PersistenceError" => ~reply.filesRun

\* C21 witness: a record built from an ad-hoc template whose save failed.
SaveFailureSurfacedBeforeFilesWitness ==
    /\ lastOp = "createStore"
    /\ reply.save = "fail"
    /\ reply.adHoc /\ reply.nameGiven
    /\ reply.error = "PersistenceError"
    /\ reply.code = 500
    /\ stores = <<>>

\* the viewport, navigation and screenshot requests of a call, in the
\* order it issued them
AcquisitionEvents(c) ==
    LET Kept(e) == e.op \in {"setViewport", "goto", "screenshot"}
    IN  SelectSeq(events[c], Kept)

AcquisitionOrder(c) ==
    << [op |-> "setViewport", width |-> 1920, height |-> 1080, isMobile |-> FALSE],
       [op |-> "goto", url |-> c],
       [op |-> "screenshot", fullPage |-> TRUE],
       [op |-> "setViewport", width |-> 375, height |-> 667, isMobile |-> TRUE],
       [op |-> "goto", url |-> c],
       [op |-> "screenshot", fullPage |-> TRUE] >>

\* C22: the viewport, navigation and screenshot requests of a call are
\* always a prefix of: desktop viewport 1920x1080, navigate to the URL,
\* screenshot, mobile viewport 375x667 with the mobile flag, navigate to
\* the same URL again, screenshot; a call that returned issued all six.
\* So the mobile screenshot is never asked for without the second
\* navigation, nor before the desktop screenshot.
AcquisitionEventsInOrder ==
    \A c \in Calls :
        LET seen == AcquisitionEvents(c)
        IN  /\ Len(seen) <= Len(AcquisitionOrder(c))
            /\ seen = SubSeq(AcquisitionOrder(c), 1, Len(seen))
            /\ pc[c] = "returned" => seen = AcquisitionOrder(c)
            /\ pc[c] = "screenshotMobile" => Len(seen) = 6

\* C22 witness: a call returned after both screenshots.
AcquisitionEventsInOrderWitness ==
    \E c \in Calls :
        /\ pc[c] = "returned"
        /\ Len(AcquisitionEvents(c)) = 6
        /\ events[c][Len(events[c])].op = "pageClose"

\* C28: every call of scrapeWebsite asks for its page on a browser that is
\* running: after close(), a later call launches a fresh browser instead
\* of using the closed one.
EveryPageOnRunningBrowser ==
    \A c \in Calls :
        \A i \in 1..Len(events[c]) :
            events[c][i].op = "newPage" => events[c][i].running

\* C23 (ApplySpec): when analyzeColors returns, primary, secondary and
\* accent are the converted forms of the first, second and third colour
\* of the list, in list order, whatever brightness role each colour got;
\* they are the hex values of the first three entries of `all`.
PaletteByPosition ==
    (call.fn = "analyzeColors" /\ result # Pending /\ ~result.threw)
    => LET slots == <<result.value.primary, result.value.secondary,
                      result.value.accent>>
       IN  /\ Len(result.value.all) = Len(call.arg)
           /\ \A i \in 1..3 :
                i <= Len(call.arg)
                => /\ result.value.all[i].original = call.arg[i]
                   /\ slots[i] = result.value.all[i].hex
                   /\ IF call.arg[i][1] = "#" THEN slots[i] = call.arg[i]
                      ELSE /\ Len(slots[i]) = 7
                           /\ slots[i][1] = "#"

\* C23 witness: a text colour, an accent colour and a background colour, in
\* that order: the accent slot holds the third colour, the background one.
PaletteByPositionWitness ==
    /\ call.fn = "analyzeColors"
    /\ call.arg = <<<<"r", "g", "b", "a", "(", "0", ",", " ", "0", ",", " ", "0", ",", " ", "0", ".", "5", ")">>,
                    <<"r", "g", "b", "(", "2", "5", "5", ",", " ", "0", ",", " ", "0", ")">>,
                    <<"r", "g", "b", "(", "2", "5", "5", ",", " ", "2", "5", "5", ",", " ", "2", "5", "5", ")">>>>
    /\ result # Pending
    /\ ~result.threw
    /\ result.value.primary = <<"#", "0", "0", "0", "0", "0", "0">>
    /\ result.value.secondary = <<"#", "f", "f", "0", "0", "0", "0">>
    /\ result.value.accent = <<"#", "f", "f", "f", "f", "f", "f">>
    /\ result.value.all[1].usage = "text"
    /\ result.value.all[2].usage = "accent"
    /\ result.value.all[3].usage = "background"

\* C24 (ApplySpec): rgbToHex returns a string that starts with '#'
\* unchanged, and applying it to its own result changes nothing.
RgbToHexIdempotent ==
    (call.fn = "rgbToHex" /\ result # Pending)
    => /\ result.again = result.hex
       /\ (call.arg # <<>> /\ call.arg[1] = "#") => result.hex = call.arg

\* C24 witness: 'rgb(255, 15, 0)' became '#ff0f00', and '#ff0f00' again.
RgbToHexIdempotentWitness ==
    /\ call.fn = "rgbToHex"
    /\ call.arg = <<"r", "g", "b", "(", "2", "5", "5", ",", " ", "1", "5", ",", " ", "0", ")">>
    /\ result # Pending
    /\ result.hex = <<"#", "f", "f", "0", "f", "0", "0">>
    /\ result.again = <<"#", "f", "f", "0", "f", "0", "0">>

\* C25 (ApplySpec): heading is the first font of the list; body is the
\* second font when there are two or more and the first when there is
\* one; for an empty list both are the Arial / sans-serif default.
HeadingFirstBodySecond ==
    (call.fn = "analyzeTypography" /\ result # Pending)
    => LET n == Len(call.arg)
       IN  /\ Len(result.all) = n
           /\ n = 0 => /\ result.heading.family = <<"A", "r", "i", "a", "l">>
                       /\ result.heading.category = "sans-serif"
                       /\ result.body.family = <<"A", "r", "i", "a", "l">>
                       /\ result.body.category = "sans-serif"
           /\ n >= 1 => result.heading = result.all[1]
           /\ n = 1 => result.body = result.all[1]
           /\ n >= 2 => result.body = result.all[2]

\* C25 witness: "'Times New Roman', serif" then 'Consolas': heading is
\* Times New Roman, body is Consolas.
HeadingFirstBodySecondWitness ==
    /\ call.fn = "analyzeTypography"
    /\ call.arg = <<<<"'", "T", "i", "m", "e", "s", " ", "N", "e", "w", " ", "R", "o", "m", "a", "n", "'", ",", " ", "s", "e", "r", "i", "f">>,
                    <<"C", "o", "n", "s", "o", "l", "a", "s">>>>
    /\ result # Pending
    /\ result.heading = [family |-> <<"T", "i", "m", "e", "s", " ", "N", "e", "w", " ", "R", "o", "m", "a", "n">>,
                         category |-> "serif", fallback |-> "Georgia, serif"]
    /\ result.body = [family |-> <<"C", "o", "n", "s", "o", "l", "a", "s">>,
                      category |-> "monospace",
                      fallback |-> "Courier New, monospace"]

\* C27 (ApplySpec): the heading and body entries that analyzeTypography
\* returns, the defaults included, have a family and a fallback, and the
\* stylesheet of a synthesized template never prints an undefined
\* fallback.
TypographyEntriesComplete ==
    /\ (call.fn = "analyzeTypography" /\ result # Pending)
       => /\ {"family", "fallback"} \subseteq DOMAIN result.heading
          /\ {"family", "fallback"} \subseteq DOMAIN result.body
    /\ (call.fn = "generateTemplate" /\ result # Pending /\ ~result.threw)
       => /\ result.value.css.fontHeading[2] # "undefined"
          /\ result.value.css.fontBody[2] # "undefined"

\* C26 (StoreSpec): the record that createStore saves keeps the colours
\* and the fonts given in customizations when they are given; the colours
\* and the typography of the template are kept only for the ones that are
\* not given.  (The template of a saved record was synthesized from the
\* same customizations, so its colours and typography are theirs.)
ExplicitCustomizationsWin ==
    (lastOp = "createStore" /\ reply.saved)
    => LET store == stores[reply.storeId]
           given == store.template.analyzedData
           kept == store.template.customizations
       IN  /\ "colors" \in DOMAIN given => kept.colors = given.colors
           /\ "fonts" \in DOMAIN given => kept.fonts = given.fonts
           /\ "fonts" \notin DOMAIN given => kept.fonts = given.typography

\* C26 witness: customizations with fonts of their own, Inter and Lora,
\* next to the typography of an analysis: the record keeps Inter and Lora.
ExplicitCustomizationsWinWitness ==
    /\ lastOp = "createStore"
    /\ reply.saved /\ ~reply.threw
    /\ LET store == stores[reply.storeId]
       IN  /\ {"typography", "fonts"} \subseteq DOMAIN store.template.analyzedData
           /\ store.template.analyzedData.fonts = [heading |-> "Inter", body |-> "Lora"]
           /\ store.template.customizations.fonts = [heading |-> "Inter", body |-> "Lora"]
           /\ store.template.customizations.fonts
                 # store.template.analyzedData.typography

\* C29 (StoreSpec): a createStore that throws before store.save() is
\* reached, in the synthesis of the template or in the Store literal,
\* leaves the collection as it was; nothing is reported saved.
FailureBeforeSavePersistsNothing ==
    [][(/\ lastOp' = "createStore"
        /\ reply'.threw
        /\ reply'.error \notin {"PersistenceError", "generateStoreFiles"})
       => (stores' = stores /\ ~reply'.saved /\ reply'.storeId = 0)]_vars

\* C29 witness: a catalog template, whose record cannot be built: the call
\* threw a TypeError and the collection is empty.
FailureBeforeSavePersistsNothingWitness ==
    /\ lastOp = "createStore"
    /\ reply.threw /\ ~reply.adHoc
    /\ reply.error = "TypeError: template.customizations.components"
    /\ reply.save = "ok"
    /\ ~reply.saved
    /\ stores = <<>>

\* C30 (StoreSpec): for an existing store improveDesign issues a
\* completion request, and when the completion answers with JSON the data
\* of the response is the parsed answer, not the fallback recommendations.
ImproveDesignUsesCompletion ==
    (lastOp = "improveDesign" /\ reply.code = 200)
    => /\ reply.requested
       /\ (reply.outcome.kind = "response" /\ JSONParse(reply.outcome.content).ok)
          => /\ reply.data = JSONParse(reply.outcome.content).val
             /\ reply.data # FallbackRecommendations

=============================================================================
